---- MODULE Spec2Model ----
(***************************************************************************)
(* Deadline and notification scheduling engine of the legal-document       *)
(* assistant backend (server/services/deadline_service.py,                 *)
(* notification_service.py, compliance_service.py, celery_app.py).         *)
(*                                                                         *)
(* Instants are naive UTC datetimes at minute resolution, written as the   *)
(* number of minutes since 2024-01-01T00:00.  The calendar covers the      *)
(* years 2024..2028 (2024 and 2028 are leap years).  A nullable column is  *)
(* a sequence: <<>> for NULL, <<v>> for the value v.  An "HH:MM" string    *)
(* is the pair <<hour, minute>>; zero-padded "HH:MM" strings order         *)
(* lexicographically exactly as these pairs do.                            *)
(***************************************************************************)
EXTENDS Integers, Sequences, FiniteSets, TLC

VARIABLES
    now,            \* datetime.utcnow()
    deadlines,      \* table deadlines: row id = index
    notifications,  \* table notifications: row id = index
    sweep,          \* the running process_pending_notifications call, if any
                    \* (in SpecRace: one session per concurrent worker)
    ev,             \* the last observable event (call, return value, sender call)
    deferred,       \* history: ids of notifications deferred at least once
    delivered,      \* history: ids of notifications a Channel Sender delivered
    probe           \* inputs and results of the pure-function specifications

vars == <<now, deadlines, notifications, sweep, ev, deferred, delivered, probe>>

-----------------------------------------------------------------------------
(* Bounds of the model.                                                    *)

\* Spec (the dispatcher)
MaxDispatchDeadlines == 1
MaxDispatchRows == 2
MaxClockSteps == 2

\* SpecLifecycle (the lifecycle manager and the scheduler)
MaxDeadlines == 2
MaxNotifications == 6

\* SpecSchedule (the scheduler's fan-out)
MaxScheduleDeadlines == 1
MaxScheduleRows == 12

\* SpecGst (the compliance check)
MaxGstDeadlines == 2
MaxGstClockSteps == 1

\* SpecFaults: Deadline rows and Notification rows
MaxFaultDeadlines == 2
MaxFaultRows == 3

\* SpecOwnership: Deadline rows and Notification rows
MaxOwnedDeadlines == 2
MaxOwnedRows == 6

\* SpecRetention: Deadline rows, Notification rows, steps of the clock
MaxRetentionDeadlines == 1
MaxRetentionRows == 2
MaxRetentionClockSteps == 2

\* SpecSeries: Deadline rows and Notification rows
MaxSeriesDeadlines == 3
MaxSeriesRows == 8

\* SpecNextDueSeries: occurrences of one series
MaxNextDueSteps == 12

\* SpecRules: conditions of one rule
MaxRuleConditions == 2

-----------------------------------------------------------------------------
(* Python datetime / timedelta arithmetic.                                 *)

MinutesPerDay == 24 * 60

Years == 2024 .. 2028

IsLeap(y) == (y % 4 = 0 /\ y % 100 # 0) \/ y % 400 = 0

DaysInMonth(y, m) ==
    IF m = 2 THEN (IF IsLeap(y) THEN 29 ELSE 28)
    ELSE IF m \in {4, 6, 9, 11} THEN 30 ELSE 31

DaysInYear(y) == IF IsLeap(y) THEN 366 ELSE 365

RECURSIVE DaysBeforeMonth(_, _)
DaysBeforeMonth(y, m) ==
    IF m = 1 THEN 0 ELSE DaysBeforeMonth(y, m - 1) + DaysInMonth(y, m - 1)

RECURSIVE DaysBeforeYear(_)
DaysBeforeYear(y) ==
    IF y <= 2024 THEN 0 ELSE DaysBeforeYear(y - 1) + DaysInYear(y - 1)

\* datetime(y, m, d, hh, mm)
DateTime(y, m, d, hh, mm) ==
    (DaysBeforeYear(y) + DaysBeforeMonth(y, m) + (d - 1)) * MinutesPerDay
        + hh * 60 + mm

DayNumber(t) == t \div MinutesPerDay

\* dt.year, dt.month, dt.day, and the time of day in minutes
YearOf(t) ==
    CHOOSE y \in Years :
        DaysBeforeYear(y) <= DayNumber(t) /\ DayNumber(t) < DaysBeforeYear(y + 1)

DayOfYear(t) == DayNumber(t) - DaysBeforeYear(YearOf(t))

MonthOf(t) ==
    CHOOSE m \in 1 .. 12 :
        /\ DaysBeforeMonth(YearOf(t), m) <= DayOfYear(t)
        /\ DayOfYear(t) < DaysBeforeMonth(YearOf(t), m) + DaysInMonth(YearOf(t), m)

DayOf(t) == DayOfYear(t) - DaysBeforeMonth(YearOf(t), MonthOf(t)) + 1

MinuteOfDay(t) == t % MinutesPerDay

\* timedelta(days = n), timedelta(hours = n)
Days(n) == n * MinutesPerDay

Hours(n) == n * 60

\* dt.replace(year = y, month = m, day = d): ValueError when the day does not
\* exist in the month (or the month does not exist); the time of day is kept.
Replace(t, y, m, d) ==
    IF m \in 1 .. 12 /\ d >= 1 /\ d <= DaysInMonth(y, m)
    THEN [ok |-> TRUE, val |-> DateTime(y, m, d, 0, 0) + MinuteOfDay(t)]
    ELSE [ok |-> FALSE, val |-> 0]

\* Comparison of two "HH:MM" strings (Python str <=).
StrLE(a, b) == a[1] < b[1] \/ (a[1] = b[1] /\ a[2] <= b[2])

\* dt.strftime('%H:%M')
StrfHM(t) == <<MinuteOfDay(t) \div 60, MinuteOfDay(t) % 60>>

NULL == <<>>

Some(v) == <<v>>

-----------------------------------------------------------------------------
(* Directory: the users table (models.User).  Users are created outside    *)
(* the scheduling engine and are fixed here.                               *)
(*   1: the column defaults of models.User                                 *)
(*   2: every channel on, phone on file, a same-day quiet window, UTC      *)
(*   3: no preferences stored (every prefs.get falls back to its default), *)
(*      sms asked for by nobody, no phone                                  *)
(*   4: sms and whatsapp on but no phone, email and push off, and a        *)
(*      timezone name pytz does not know                                   *)

Users == 1 .. 4

UserRow(u) ==
    CASE u = 1 -> [phone |-> NULL, timezone |-> "Asia/Kolkata",
                   notification_preferences |->
                       [email |-> TRUE, sms |-> FALSE, whatsapp |-> FALSE,
                        push |-> TRUE, quiet_hours_start |-> <<22, 0>>,
                        quiet_hours_end |-> <<8, 0>>]]
      [] u = 2 -> [phone |-> Some("+911234567890"), timezone |-> "UTC",
                   notification_preferences |->
                       [email |-> TRUE, sms |-> TRUE, whatsapp |-> TRUE,
                        push |-> TRUE, quiet_hours_start |-> <<13, 0>>,
                        quiet_hours_end |-> <<15, 0>>]]
      [] u = 3 -> [phone |-> NULL, timezone |-> "Asia/Kolkata",
                   notification_preferences |-> [k \in {} |-> TRUE]]
      [] OTHER -> [phone |-> NULL, timezone |-> "Mars/Olympus",
                   notification_preferences |->
                       [email |-> FALSE, sms |-> TRUE, whatsapp |-> TRUE,
                        push |-> FALSE]]

\* dict.get(key, default)
Get(d, key, default) == IF key \in DOMAIN d THEN d[key] ELSE default

\* pytz.timezone(name): the zone's standard UTC offset in minutes;
\* UnknownTimeZoneError for a name pytz does not know.
TzLookup(name) ==
    CASE name = "Asia/Kolkata" -> [ok |-> TRUE, offset |-> 5 * 60 + 30]
      [] name = "UTC" -> [ok |-> TRUE, offset |-> 0]
      [] name = "America/Bogota" -> [ok |-> TRUE, offset |-> 0 - 5 * 60]
      [] name = "America/New_York" -> [ok |-> TRUE, offset |-> 0 - 5 * 60]
      [] OTHER -> [ok |-> FALSE, offset |-> 0]

\* The zone's UTC offset at the UTC instant t, the offset astimezone(user_tz)
\* attaches to the local time.  Of the zones used only America/New_York has
\* daylight saving time; its 2025 period is 9 March 07:00Z to 2 November
\* 06:00Z.
UtcOffset(name, t) ==
    IF /\ name = "America/New_York"
       /\ DateTime(2025, 3, 9, 7, 0) <= t
       /\ t < DateTime(2025, 11, 2, 6, 0)
    THEN TzLookup(name).offset + 60
    ELSE TzLookup(name).offset

-----------------------------------------------------------------------------
(* Quiet-hours policy (NotificationService._is_quiet_hours,                *)
(* _get_next_available_time), on the preferences and time zone of a user.  *)

\* the test with the end of the window left outside it
IsQuiet_end_exclusive(prefs, tzname, notification_time) ==
    LET quiet_start == Get(prefs, "quiet_hours_start", <<22, 0>>)
        quiet_end == Get(prefs, "quiet_hours_end", <<8, 0>>)
        user_tz == TzLookup(tzname)
        local_time == notification_time + UtcOffset(tzname, notification_time)
        time_str == StrfHM(local_time)
    IN  IF ~user_tz.ok THEN FALSE
        ELSE IF StrLE(quiet_start, quiet_end)
             THEN StrLE(quiet_start, time_str) /\ ~StrLE(quiet_end, time_str)
             ELSE StrLE(quiet_start, time_str) \/ ~StrLE(quiet_end, time_str)

IsQuiet(prefs, tzname, notification_time) ==
    LET quiet_start == Get(prefs, "quiet_hours_start", <<22, 0>>)
        quiet_end == Get(prefs, "quiet_hours_end", <<8, 0>>)
        user_tz == TzLookup(tzname)
        local_time == notification_time + UtcOffset(tzname, notification_time)
        time_str == StrfHM(local_time)
    IN  IF ~user_tz.ok THEN FALSE
        ELSE IF StrLE(quiet_start, quiet_end)
             THEN StrLE(quiet_start, time_str) /\ StrLE(time_str, quiet_end)
             ELSE StrLE(quiet_start, time_str) \/ StrLE(time_str, quiet_end)

\* local_time carries the offset in force at notification_time; replace()
\* and timedelta arithmetic keep that offset, and astimezone(pytz.UTC)
\* subtracts it again.
NextAvailable(prefs, tzname, notification_time) ==
    LET quiet_end == Get(prefs, "quiet_hours_end", <<8, 0>>)
        user_tz == TzLookup(tzname)
        utcoffset == UtcOffset(tzname, notification_time)
        local_time == notification_time + utcoffset
        hour == quiet_end[1]
        minute == quiet_end[2]
        next_time == local_time - MinuteOfDay(local_time) + hour * 60 + minute
    IN  IF ~user_tz.ok \/ hour > 23 \/ minute > 59
        THEN notification_time + Hours(1)
        ELSE IF next_time <= local_time
             THEN next_time + Days(1) - utcoffset
             ELSE next_time - utcoffset

_is_quiet_hours(user, notification_time) ==
    IsQuiet(user.notification_preferences, user.timezone, notification_time)

_get_next_available_time(user, notification_time) ==
    NextAvailable(user.notification_preferences, user.timezone, notification_time)

-----------------------------------------------------------------------------
(* Notification Scheduler (NotificationService.schedule_deadline_notifications, *)
(* _create_notification): the rows it inserts for deadline row `dl` with id     *)
(* `id` when the clock reads `t`.  A row's message embeds days_before and the   *)
(* due date formatted '%Y-%m-%d'; it is kept as <<days_before, day of due>>.    *)

NewNotification(user_id, deadline_id, message, notification_type, scheduled_for) ==
    [user_id |-> user_id, deadline_id |-> deadline_id, message |-> message,
     notification_type |-> notification_type, is_sent |-> FALSE,
     sent_at |-> NULL, scheduled_for |-> scheduled_for]

\* the fan-out with the phone-on-file test left out
ReminderRows_no_phone_test(id, dl, t, days_before) ==
    LET user == UserRow(dl.user_id)
        prefs == user.notification_preferences
        notification_date == dl.due_date - Days(days_before)
        row(type) == <<NewNotification(dl.user_id, Some(id),
                                       <<days_before, DayNumber(dl.due_date)>>,
                                       type, notification_date)>>
    IN  IF notification_date <= t THEN <<>>
        ELSE (IF Get(prefs, "email", TRUE) THEN row("email") ELSE <<>>)
          \o (IF Get(prefs, "sms", FALSE) THEN row("sms") ELSE <<>>)
          \o (IF Get(prefs, "whatsapp", FALSE) THEN row("whatsapp") ELSE <<>>)
          \o (IF Get(prefs, "push", TRUE) THEN row("push") ELSE <<>>)

ReminderRows(id, dl, t, days_before) ==
    LET user == UserRow(dl.user_id)
        prefs == user.notification_preferences
        notification_date == dl.due_date - Days(days_before)
        row(type) == <<NewNotification(dl.user_id, Some(id),
                                       <<days_before, DayNumber(dl.due_date)>>,
                                       type, notification_date)>>
    IN  IF notification_date <= t THEN <<>>
        ELSE (IF Get(prefs, "email", TRUE) THEN row("email") ELSE <<>>)
          \o (IF Get(prefs, "sms", FALSE) /\ user.phone # NULL
              THEN row("sms") ELSE <<>>)
          \o (IF Get(prefs, "whatsapp", FALSE) /\ user.phone # NULL
              THEN row("whatsapp") ELSE <<>>)
          \o (IF Get(prefs, "push", TRUE) THEN row("push") ELSE <<>>)

RECURSIVE ScheduleFrom(_, _, _, _)
ScheduleFrom(id, dl, t, i) ==
    IF i > Len(dl.reminder_days) THEN <<>>
    ELSE ReminderRows(id, dl, t, dl.reminder_days[i]) \o ScheduleFrom(id, dl, t, i + 1)

schedule_deadline_notifications(id, dl, t) ==
    IF dl.user_id \notin Users THEN <<>> ELSE ScheduleFrom(id, dl, t, 1)

-----------------------------------------------------------------------------
(* Recurrence Calculator (DeadlineService._calculate_next_due_date).       *)
(* [ok |-> FALSE] is the ValueError datetime.replace raises.               *)

\* the calculator with the quarterly branch keeping the year when the new
\* month wraps past December
_calculate_next_due_date_same_year(current_due_date, recurrence_pattern) ==
    LET year == YearOf(current_due_date)
        month == MonthOf(current_due_date)
        day == DayOf(current_due_date)
    IN  CASE recurrence_pattern = "daily" ->
                [ok |-> TRUE, val |-> current_due_date + Days(1)]
          [] recurrence_pattern = "weekly" ->
                [ok |-> TRUE, val |-> current_due_date + Days(7)]
          [] recurrence_pattern = "monthly" ->
                IF month = 12 THEN Replace(current_due_date, year + 1, 1, day)
                ELSE Replace(current_due_date, year, month + 1, day)
          [] recurrence_pattern = "quarterly" ->
                IF month + 3 > 12
                THEN Replace(current_due_date, year, month + 3 - 12, day)
                ELSE Replace(current_due_date, year, month + 3, day)
          [] recurrence_pattern = "annually" ->
                Replace(current_due_date, year + 1, month, day)
          [] OTHER -> Replace(current_due_date, year, month + 1, day)

_calculate_next_due_date(current_due_date, recurrence_pattern) ==
    LET year == YearOf(current_due_date)
        month == MonthOf(current_due_date)
        day == DayOf(current_due_date)
    IN  CASE recurrence_pattern = "daily" ->
                [ok |-> TRUE, val |-> current_due_date + Days(1)]
          [] recurrence_pattern = "weekly" ->
                [ok |-> TRUE, val |-> current_due_date + Days(7)]
          [] recurrence_pattern = "monthly" ->
                IF month = 12 THEN Replace(current_due_date, year + 1, 1, day)
                ELSE Replace(current_due_date, year, month + 1, day)
          [] recurrence_pattern = "quarterly" ->
                IF month + 3 > 12
                THEN Replace(current_due_date, year + 1, month + 3 - 12, day)
                ELSE Replace(current_due_date, year, month + 3, day)
          [] recurrence_pattern = "annually" ->
                Replace(current_due_date, year + 1, month, day)
          [] OTHER -> Replace(current_due_date, year, month + 1, day)

-----------------------------------------------------------------------------
(* GST/Periodic Deadline Generator                                         *)
(* (ComplianceService._calculate_next_gst_deadline) at clock reading t.    *)

\* ComplianceService.gst_filing_deadlines / Config.GST_FILING_DEADLINES
gst_filing_deadlines ==
    [monthly |-> 20, quarterly |-> 20, annual |-> 31]

\* the generator with the monthly test now.day < deadline_day
_calculate_next_gst_deadline_before(business_type, deadline_day, t) ==
    LET year == YearOf(t)
        month == MonthOf(t)
        day == DayOf(t)
        next_month == IF month = 12 THEN Replace(t, year + 1, 1, deadline_day)
                      ELSE Replace(t, year, month + 1, deadline_day)
        current_quarter == (month - 1) \div 3 + 1
        next_quarter == IF current_quarter < 4 THEN current_quarter + 1 ELSE 1
        next_quarter_month == (next_quarter - 1) * 3 + 1
        next_deadline ==
            CASE business_type = "monthly" ->
                    IF day < deadline_day THEN Replace(t, year, month, deadline_day)
                    ELSE next_month
              [] business_type = "quarterly" ->
                    IF next_quarter = 1
                    THEN Replace(t, year + 1, next_quarter_month, deadline_day)
                    ELSE Replace(t, year, next_quarter_month, deadline_day)
              [] business_type = "annual" ->
                    Replace(t, year, 12, 31)
              [] OTHER ->
                    IF ~Replace(t, year, month, deadline_day).ok
                    THEN [ok |-> FALSE, val |-> 0]
                    ELSE IF day > deadline_day THEN next_month
                    ELSE Replace(t, year, month, deadline_day)
    IN  IF next_deadline.ok THEN next_deadline.val ELSE t + Days(30)

_calculate_next_gst_deadline(business_type, deadline_day, t) ==
    LET year == YearOf(t)
        month == MonthOf(t)
        day == DayOf(t)
        next_month == IF month = 12 THEN Replace(t, year + 1, 1, deadline_day)
                      ELSE Replace(t, year, month + 1, deadline_day)
        current_quarter == (month - 1) \div 3 + 1
        next_quarter == IF current_quarter < 4 THEN current_quarter + 1 ELSE 1
        next_quarter_month == (next_quarter - 1) * 3 + 1
        next_deadline ==
            CASE business_type = "monthly" ->
                    IF day <= deadline_day THEN Replace(t, year, month, deadline_day)
                    ELSE next_month
              [] business_type = "quarterly" ->
                    IF next_quarter = 1
                    THEN Replace(t, year + 1, next_quarter_month, deadline_day)
                    ELSE Replace(t, year, next_quarter_month, deadline_day)
              [] business_type = "annual" ->
                    \* now.month == 12 and now.day > 31 never holds
                    Replace(t, year, 12, 31)
              [] OTHER ->
                    IF ~Replace(t, year, month, deadline_day).ok
                    THEN [ok |-> FALSE, val |-> 0]
                    ELSE IF day > deadline_day THEN next_month
                    ELSE Replace(t, year, month, deadline_day)
    IN  IF next_deadline.ok THEN next_deadline.val ELSE t + Days(30)

-----------------------------------------------------------------------------
(* Record Store rows.                                                      *)

\* Deadline(user_id, deadline_type, due_date, is_recurring, recurrence_pattern,
\*          reminder_days) inserted when the clock reads t
NewDeadline(user_id, dtype, due_date, is_recurring, pattern, reminder_days, t) ==
    [user_id |-> user_id, deadline_type |-> dtype, due_date |-> due_date,
     is_recurring |-> is_recurring, recurrence_pattern |-> pattern,
     reminder_days |-> reminder_days, is_completed |-> FALSE,
     completed_at |-> NULL, created_at |-> t]

\* Python truthiness of a nullable string column
Truthy(str) == str # "None" /\ str # ""

-----------------------------------------------------------------------------
(* Notification Dispatcher.                                                *)

\* Channel Sender: _send_push is a stub that always reports success; email,
\* sms and whatsapp report what the provider (or the missing configuration)
\* gives, the input `provider_ok`.
ChannelSend(notification_type, provider_ok) ==
    IF notification_type = "push" THEN TRUE ELSE provider_ok

\* send_notification without the return after a deferral: the row is
\* rescheduled and then handed to the Channel Sender all the same
send_notification_defer_and_send(st, id, via, provider_ok, t) ==
    LET notification == st.ns[id]
        user == UserRow(notification.user_id)
        success == ChannelSend(notification.notification_type, provider_ok)
    IN  IF notification.user_id \notin Users
        THEN [st EXCEPT !.ev = [op |-> "send_notification", via |-> via, id |-> id,
                                result |-> FALSE]]
        ELSE IF _is_quiet_hours(user, notification.scheduled_for)
        THEN LET next_time ==
                     _get_next_available_time(user, notification.scheduled_for)
             IN  [ns |-> [st.ns EXCEPT ![id].scheduled_for = next_time,
                                       ![id].is_sent = success,
                                       ![id].sent_at =
                                           IF success THEN Some(t) ELSE NULL],
                  ev |-> [op |-> "defer", via |-> via, id |-> id,
                          from |-> notification.scheduled_for, to |-> next_time,
                          again |-> id \in st.deferred],
                  deferred |-> st.deferred \cup {id},
                  delivered |-> IF success THEN st.delivered \cup {id}
                                ELSE st.delivered]
        ELSE [ns |-> [st.ns EXCEPT ![id].is_sent = success,
                                   ![id].sent_at =
                                       IF success THEN Some(t) ELSE NULL],
              ev |-> [op |-> "send", via |-> via, id |-> id,
                      was_sent |-> notification.is_sent, success |-> success],
              deferred |-> st.deferred,
              delivered |-> IF success THEN st.delivered \cup {id}
                            ELSE st.delivered]

\* send_notification marking the row sent whatever the channel reports
send_notification_always_sent(st, id, via, provider_ok, t) ==
    LET notification == st.ns[id]
        user == UserRow(notification.user_id)
    IN  IF notification.user_id \notin Users
        THEN [st EXCEPT !.ev = [op |-> "send_notification", via |-> via, id |-> id,
                                result |-> FALSE]]
        ELSE IF _is_quiet_hours(user, notification.scheduled_for)
        THEN LET next_time ==
                     _get_next_available_time(user, notification.scheduled_for)
             IN  [ns |-> [st.ns EXCEPT ![id].scheduled_for = next_time],
                  ev |-> [op |-> "defer", via |-> via, id |-> id,
                          from |-> notification.scheduled_for, to |-> next_time,
                          again |-> id \in st.deferred],
                  deferred |-> st.deferred \cup {id},
                  delivered |-> st.delivered]
        ELSE LET success == ChannelSend(notification.notification_type, provider_ok)
             IN  [ns |-> [st.ns EXCEPT ![id].is_sent = TRUE,
                                       ![id].sent_at = Some(t)],
                  ev |-> [op |-> "send", via |-> via, id |-> id,
                          was_sent |-> notification.is_sent, success |-> success],
                  deferred |-> st.deferred,
                  delivered |-> IF success THEN st.delivered \cup {id}
                                ELSE st.delivered]

\* NotificationService.send_notification on row `id`, reached through `via`,
\* on the store `st` = [ns, ev, deferred, delivered]; returns the store after it.
send_notification(st, id, via, provider_ok, t) ==
    LET notification == st.ns[id]
        user == UserRow(notification.user_id)
    IN  IF notification.user_id \notin Users
        THEN [st EXCEPT !.ev = [op |-> "send_notification", via |-> via, id |-> id,
                                result |-> FALSE]]
        ELSE IF _is_quiet_hours(user, notification.scheduled_for)
        THEN LET next_time ==
                     _get_next_available_time(user, notification.scheduled_for)
             IN  [ns |-> [st.ns EXCEPT ![id].scheduled_for = next_time],
                  ev |-> [op |-> "defer", via |-> via, id |-> id,
                          from |-> notification.scheduled_for, to |-> next_time,
                          again |-> id \in st.deferred],
                  deferred |-> st.deferred \cup {id},
                  delivered |-> st.delivered]
        ELSE LET success == ChannelSend(notification.notification_type, provider_ok)
             IN  [ns |-> [st.ns EXCEPT ![id].is_sent = success,
                                       ![id].sent_at =
                                           IF success THEN Some(t) ELSE NULL],
                  ev |-> [op |-> "send", via |-> via, id |-> id,
                          was_sent |-> notification.is_sent, success |-> success],
                  deferred |-> st.deferred,
                  delivered |-> IF success THEN st.delivered \cup {id}
                                ELSE st.delivered]

Store == [ns |-> notifications, ev |-> ev, deferred |-> deferred,
          delivered |-> delivered]

Commit(st) ==
    /\ notifications' = st.ns
    /\ ev' = st.ev
    /\ deferred' = st.deferred
    /\ delivered' = st.delivered

\* the query with the is_sent filter left out
get_pending_notifications_due(ns, t) ==
    SelectSeq([i \in 1 .. Len(ns) |-> i], LAMBDA i : ns[i].scheduled_for <= t)

\* NotificationService.get_pending_notifications: the ids selected, in id order
get_pending_notifications(ns, t) ==
    SelectSeq([i \in 1 .. Len(ns) |-> i],
              LAMBDA i : ns[i].scheduled_for <= t /\ ns[i].is_sent = FALSE)

Idle == ~sweep.active

\* process_pending_notifications: the query
SweepBegin ==
    /\ Idle
    /\ LET pending_notifications == get_pending_notifications(notifications, now)
       IN  /\ sweep' = [active |-> TRUE, queue |-> pending_notifications,
                        count |-> Len(pending_notifications)]
           /\ ev' = [op |-> "sweep_begin",
                     selected |-> pending_notifications]
    /\ UNCHANGED <<now, deadlines, notifications, deferred, delivered, probe>>

\* process_pending_notifications: one turn of the for loop
SweepStep(provider_ok) ==
    /\ sweep.active
    /\ sweep.queue # <<>>
    /\ Commit(send_notification(Store, Head(sweep.queue), "sweep", provider_ok, now))
    /\ sweep' = [sweep EXCEPT !.queue = Tail(sweep.queue)]
    /\ UNCHANGED <<now, deadlines, probe>>

\* process_pending_notifications: return len(pending_notifications)
SweepReturn ==
    /\ sweep.active
    /\ sweep.queue = <<>>
    /\ sweep' = [active |-> FALSE, queue |-> <<>>, count |-> 0]
    /\ ev' = [op |-> "sweep_return", count |-> sweep.count]
    /\ UNCHANGED <<now, deadlines, notifications, deferred, delivered, probe>>

\* process_pending_notifications: one turn of the for loop in which the
\* commit inside send_notification raises.  The row is rolled back to what it
\* was, a message the provider already accepted stays delivered; the error
\* passes through send_notification and the loop, which has no handler, to
\* process_deadline_reminders, which returns False.
SweepStepFault(provider_ok) ==
    /\ sweep.active
    /\ sweep.queue # <<>>
    /\ notifications[Head(sweep.queue)].user_id \in Users
    /\ LET id == Head(sweep.queue)
           sent == send_notification(Store, id, "sweep", provider_ok, now)
       IN  /\ delivered' = sent.delivered
           /\ ev' = [op |-> "sweep_abort", id |-> id,
                     unprocessed |-> Tail(sweep.queue)]
    /\ sweep' = [active |-> FALSE, queue |-> <<>>, count |-> 0]
    /\ UNCHANGED <<now, deadlines, notifications, deferred, probe>>

\* celery task send_notification_task(notification_id)
SendNotificationTask(notification_id, provider_ok) ==
    /\ Idle
    /\ IF notification_id \in 1 .. Len(notifications)
       THEN Commit(send_notification(Store, notification_id, "task", provider_ok, now))
       ELSE /\ ev' = [op |-> "send_notification", via |-> "task",
                      id |-> notification_id, result |-> FALSE]
            /\ UNCHANGED <<notifications, deferred, delivered>>
    /\ UNCHANGED <<now, deadlines, sweep, probe>>

\* celery task send_bulk_notifications(notification_data_list): each item is
\* created (_create_notification) and then sent; provider_oks[i] is what the
\* provider reports for item i.
RECURSIVE BulkFrom(_, _, _, _, _)
BulkFrom(st, notification_data_list, provider_oks, t, i) ==
    IF i > Len(notification_data_list) THEN st
    ELSE LET d == notification_data_list[i]
             created == [st EXCEPT
                           !.ns = Append(st.ns,
                                     NewNotification(d.user_id, d.deadline_id,
                                         d.message, d.notification_type,
                                         d.scheduled_for))]
         IN  BulkFrom(send_notification(created, Len(created.ns), "bulk",
                                        provider_oks[i], t),
                      notification_data_list, provider_oks, t, i + 1)

SendBulkNotifications(notification_data_list, provider_oks) ==
    /\ Idle
    /\ Commit(BulkFrom(Store, notification_data_list, provider_oks, now, 1))
    /\ UNCHANGED <<now, deadlines, sweep, probe>>

\* notification.is_sent = True; notification.sent_at = datetime.utcnow(),
\* with sent_at left as it was
MarkedSent_no_sent_at(notification, t) ==
    [notification EXCEPT !.is_sent = TRUE]

\* notification.is_sent = True; notification.sent_at = datetime.utcnow()
MarkedSent(notification, t) ==
    [notification EXCEPT !.is_sent = TRUE, !.sent_at = Some(t)]

\* NotificationService.mark_notification_sent(notification_id, user_id)
MarkNotificationSent(notification_id, user_id) ==
    /\ Idle
    /\ IF /\ notification_id \in 1 .. Len(notifications)
          /\ notifications[notification_id].user_id = user_id
       THEN /\ notifications' =
                   [notifications EXCEPT
                       ![notification_id] = MarkedSent(notifications[notification_id], now)]
            /\ ev' = [op |-> "mark_notification_sent", result |-> "ok",
                      id |-> notification_id]
       ELSE /\ ev' = [op |-> "mark_notification_sent", result |-> "not_found",
                      id |-> notification_id]
            /\ UNCHANGED notifications
    /\ UNCHANGED <<now, deadlines, sweep, deferred, delivered, probe>>

-----------------------------------------------------------------------------
(* Retention (celery task cleanup_old_notifications).                      *)

\* A deleted Notification: ids are never reused, so the slot stays in the
\* sequence with no user; no query returns it and a send on it finds no row.
DeletedNotification(notification) == [notification EXCEPT !.user_id = 0]

Exists(notification) == notification.user_id # 0

\* the query with sent_at <= cutoff_date
old_notifications_inclusive(ns, t) ==
    LET cutoff_date == t - Days(30)
    IN  {i \in 1 .. Len(ns) :
            /\ Exists(ns[i])
            /\ ns[i].sent_at # NULL /\ ns[i].sent_at[1] <= cutoff_date
            /\ ns[i].is_sent = TRUE}

\* Notification.query.filter(sent_at < cutoff_date, is_sent == True): a NULL
\* sent_at compares as unknown and the row is not selected
old_notifications(ns, t) ==
    LET cutoff_date == t - Days(30)
    IN  {i \in 1 .. Len(ns) :
            /\ Exists(ns[i])
            /\ ns[i].sent_at # NULL /\ ns[i].sent_at[1] < cutoff_date
            /\ ns[i].is_sent = TRUE}

\* cleanup_old_notifications()
CleanupOldNotifications ==
    /\ Idle
    /\ LET old == old_notifications(notifications, now)
       IN  /\ notifications' =
                  [i \in 1 .. Len(notifications) |->
                      IF i \in old THEN DeletedNotification(notifications[i])
                      ELSE notifications[i]]
           /\ ev' = [op |-> "cleanup_old_notifications", deleted |-> old]
    /\ UNCHANGED <<now, deadlines, sweep, deferred, delivered, probe>>

-----------------------------------------------------------------------------
(* Deadline Lifecycle Manager (DeadlineService).                           *)

\* the rows schedule_deadline_notifications commits, appended to the table
Scheduled(id, dl) ==
    LET rows == schedule_deadline_notifications(id, dl, now)
    IN  notifications' = notifications \o rows

\* the lookup with the user_id filter left out
Owned_any_user(deadline_id, user_id) ==
    deadline_id \in 1 .. Len(deadlines)

Owned(deadline_id, user_id) ==
    /\ deadline_id \in 1 .. Len(deadlines)
    /\ deadlines[deadline_id].user_id = user_id

\* DeadlineService.create_deadline(user_id, deadline_data)
CreateDeadline(user_id, deadline_data) ==
    /\ Idle
    /\ LET id == Len(deadlines) + 1
           deadline == NewDeadline(user_id, deadline_data.deadline_type,
                           deadline_data.due_date,
                           Get(deadline_data, "is_recurring", FALSE),
                           Get(deadline_data, "recurrence_pattern", "None"),
                           Get(deadline_data, "reminder_days", <<7, 3, 1>>), now)
       IN  /\ deadlines' = Append(deadlines, deadline)
           /\ Scheduled(id, deadline)
           /\ ev' = [op |-> "create_deadline", result |-> "ok", deadline |-> id]
    /\ UNCHANGED <<now, sweep, deferred, delivered, probe>>

\* the allowed fields of update_data written onto the row
Patched(deadline, update_data) ==
    [deadline EXCEPT
        !.due_date = Get(update_data, "due_date", @),
        !.is_recurring = Get(update_data, "is_recurring", @),
        !.recurrence_pattern = Get(update_data, "recurrence_pattern", @),
        !.reminder_days = Get(update_data, "reminder_days", @)]

\* DeadlineService.update_deadline(deadline_id, user_id, update_data)
UpdateDeadline(deadline_id, user_id, update_data) ==
    /\ Idle
    /\ IF ~Owned(deadline_id, user_id)
       THEN /\ ev' = [op |-> "update_deadline", result |-> "not_found",
                      deadline |-> deadline_id, rescheduled |-> FALSE]
            /\ UNCHANGED <<deadlines, notifications>>
       ELSE LET deadline == Patched(deadlines[deadline_id], update_data)
            IN  /\ deadlines' = [deadlines EXCEPT ![deadline_id] = deadline]
                /\ IF "due_date" \in DOMAIN update_data
                   THEN Scheduled(deadline_id, deadline)
                   ELSE UNCHANGED notifications
                /\ ev' = [op |-> "update_deadline", result |-> "ok",
                          deadline |-> deadline_id,
                          rescheduled |-> "due_date" \in DOMAIN update_data]
    /\ UNCHANGED <<now, sweep, deferred, delivered, probe>>

\* DeadlineService.mark_deadline_completed(deadline_id, user_id), with
\* _create_next_recurring_deadline.  The completion is committed before the
\* successor is computed, so a ValueError out of _calculate_next_due_date
\* leaves the completed row and no successor.
MarkDeadlineCompleted(deadline_id, user_id) ==
    /\ Idle
    /\ IF ~Owned(deadline_id, user_id)
       THEN /\ ev' = [op |-> "mark_deadline_completed", result |-> "not_found",
                      deadline |-> deadline_id, successor |-> NULL]
            /\ UNCHANGED <<deadlines, notifications>>
       ELSE LET deadline == [deadlines[deadline_id] EXCEPT
                                !.is_completed = TRUE, !.completed_at = Some(now)]
                completed == [deadlines EXCEPT ![deadline_id] = deadline]
                next_due_date == _calculate_next_due_date(deadline.due_date,
                                     deadline.recurrence_pattern)
                new_id == Len(deadlines) + 1
                new_deadline == NewDeadline(deadline.user_id, deadline.deadline_type,
                                    next_due_date.val, deadline.is_recurring,
                                    deadline.recurrence_pattern,
                                    deadline.reminder_days, now)
            IN  IF ~(deadline.is_recurring /\ Truthy(deadline.recurrence_pattern))
                THEN /\ deadlines' = completed
                     /\ ev' = [op |-> "mark_deadline_completed", result |-> "ok",
                               deadline |-> deadline_id,
                               successor |-> NULL]
                     /\ UNCHANGED notifications
                ELSE IF ~next_due_date.ok
                THEN /\ deadlines' = completed
                     /\ ev' = [op |-> "mark_deadline_completed", result |-> "error",
                               deadline |-> deadline_id,
                               successor |-> NULL]
                     /\ UNCHANGED notifications
                ELSE /\ deadlines' = Append(completed, new_deadline)
                     /\ Scheduled(new_id, new_deadline)
                     /\ ev' = [op |-> "mark_deadline_completed", result |-> "ok",
                               deadline |-> deadline_id,
                               successor |-> Some(new_id)]
    /\ UNCHANGED <<now, sweep, deferred, delivered, probe>>

\* A deleted Deadline: ids are never reused, so the slot stays in the
\* sequence with no owner and no lookup by (id, user_id) finds it.
Deleted(deadline) == [deadline EXCEPT !.user_id = 0]

\* DeadlineService.delete_deadline(deadline_id, user_id).  No relationship
\* cascades from Deadline to Notification: with Notifications referencing the
\* Deadline, a store that enforces notifications.deadline_id rejects the
\* DELETE at commit (rolled back, re-raised), and one that does not removes
\* the Deadline and keeps the Notifications.
DeleteDeadline(deadline_id, user_id) ==
    /\ Idle
    /\ IF ~Owned(deadline_id, user_id)
       THEN /\ ev' = [op |-> "delete_deadline", result |-> "not_found",
                      deadline |-> deadline_id]
            /\ UNCHANGED deadlines
       ELSE \/ /\ deadlines' = [deadlines EXCEPT
                                   ![deadline_id] = Deleted(deadlines[deadline_id])]
               /\ ev' = [op |-> "delete_deadline", result |-> "ok",
                         deadline |-> deadline_id]
            \/ /\ \E n \in 1 .. Len(notifications) :
                      notifications[n].deadline_id = Some(deadline_id)
               /\ ev' = [op |-> "delete_deadline", result |-> "error",
                         deadline |-> deadline_id]
               /\ UNCHANGED deadlines
    /\ UNCHANGED <<now, notifications, sweep, deferred, delivered, probe>>

-----------------------------------------------------------------------------
(* The lifecycle manager when the store fails.  fault_at = 0: the commit   *)
(* of the Deadline write raises; fault_at = k >= 1: the commit inside the  *)
(* k-th _create_notification of the scheduling run raises.  Every commit   *)
(* before the failing one stays; db.session.rollback() discards only what  *)
(* was not committed, and every except clause re-raises.                   *)

\* schedule_deadline_notifications with the k-th insert raising: the rows
\* committed before it
ScheduledUpTo(id, dl, fault_at) ==
    LET rows == schedule_deadline_notifications(id, dl, now)
    IN  /\ fault_at \in 1 .. Len(rows)
        /\ notifications' = notifications \o SubSeq(rows, 1, fault_at - 1)

\* DeadlineService.create_deadline(user_id, deadline_data), raising
CreateDeadlineFault(user_id, deadline_data, fault_at) ==
    /\ Idle
    /\ LET id == Len(deadlines) + 1
           deadline == NewDeadline(user_id, deadline_data.deadline_type,
                           deadline_data.due_date,
                           Get(deadline_data, "is_recurring", FALSE),
                           Get(deadline_data, "recurrence_pattern", "None"),
                           Get(deadline_data, "reminder_days", <<7, 3, 1>>), now)
       IN  /\ IF fault_at = 0
              THEN UNCHANGED <<deadlines, notifications>>
              ELSE /\ deadlines' = Append(deadlines, deadline)
                   /\ ScheduledUpTo(id, deadline, fault_at)
           /\ ev' = [op |-> "create_deadline", result |-> "error",
                     deadline |-> id, fault_at |-> fault_at]
    /\ UNCHANGED <<now, sweep, deferred, delivered, probe>>

\* DeadlineService.update_deadline(deadline_id, user_id, update_data), raising
UpdateDeadlineFault(deadline_id, user_id, update_data, fault_at) ==
    /\ Idle
    /\ Owned(deadline_id, user_id)
    /\ LET deadline == Patched(deadlines[deadline_id], update_data)
       IN  IF fault_at = 0
           THEN UNCHANGED <<deadlines, notifications>>
           ELSE /\ "due_date" \in DOMAIN update_data
                /\ deadlines' = [deadlines EXCEPT ![deadline_id] = deadline]
                /\ ScheduledUpTo(deadline_id, deadline, fault_at)
    /\ ev' = [op |-> "update_deadline", result |-> "error",
              deadline |-> deadline_id,
              rescheduled |-> fault_at >= 1, fault_at |-> fault_at]
    /\ UNCHANGED <<now, sweep, deferred, delivered, probe>>

\* DeadlineService.mark_deadline_completed(deadline_id, user_id), raising in
\* the store: the completion and the successor are committed one after the
\* other before the successor's notifications are scheduled
MarkDeadlineCompletedFault(deadline_id, user_id, fault_at) ==
    /\ Idle
    /\ Owned(deadline_id, user_id)
    /\ LET deadline == [deadlines[deadline_id] EXCEPT
                           !.is_completed = TRUE, !.completed_at = Some(now)]
           completed == [deadlines EXCEPT ![deadline_id] = deadline]
           next_due_date == _calculate_next_due_date(deadline.due_date,
                                deadline.recurrence_pattern)
           new_id == Len(deadlines) + 1
           new_deadline == NewDeadline(deadline.user_id, deadline.deadline_type,
                               next_due_date.val, deadline.is_recurring,
                               deadline.recurrence_pattern,
                               deadline.reminder_days, now)
       IN  IF fault_at = 0
           THEN /\ UNCHANGED <<deadlines, notifications>>
                /\ ev' = [op |-> "mark_deadline_completed", result |-> "error",
                          deadline |-> deadline_id, successor |-> NULL,
                          fault_at |-> fault_at]
           ELSE /\ deadline.is_recurring /\ Truthy(deadline.recurrence_pattern)
                /\ next_due_date.ok
                /\ deadlines' = Append(completed, new_deadline)
                /\ ScheduledUpTo(new_id, new_deadline, fault_at)
                /\ ev' = [op |-> "mark_deadline_completed", result |-> "error",
                          deadline |-> deadline_id, successor |-> Some(new_id),
                          fault_at |-> fault_at]
    /\ UNCHANGED <<now, sweep, deferred, delivered, probe>>

-----------------------------------------------------------------------------
(* Compliance check workflow (ComplianceService.check_compliance,          *)
(* _check_gst_compliance, _create_gst_deadline).                           *)

\* the lookup against the wrong deadline type
ExistingGst_compliance_type(user_id, due_date) ==
    {i \in 1 .. Len(deadlines) :
        /\ deadlines[i].user_id = user_id
        /\ deadlines[i].deadline_type = "compliance"
        /\ deadlines[i].due_date = due_date}

\* Deadline.query.filter_by(user_id, deadline_type = GST_FILING, due_date).first()
ExistingGst(user_id, due_date) ==
    {i \in 1 .. Len(deadlines) :
        /\ deadlines[i].user_id = user_id
        /\ deadlines[i].deadline_type = "gst_filing"
        /\ deadlines[i].due_date = due_date}

CheckCompliance(document_type, business_type, user_id) ==
    /\ Idle
    /\ IF document_type \in {"gst", "business", "tax"}
          /\ business_type \in DOMAIN gst_filing_deadlines
       THEN LET deadline_day == gst_filing_deadlines[business_type]
                next_deadline == _calculate_next_gst_deadline(business_type,
                                     deadline_day, now)
                existing == ExistingGst(user_id, next_deadline)
                deadline == NewDeadline(user_id, "gst_filing", next_deadline, TRUE,
                                business_type, <<7, 3, 1>>, now)
            IN  IF existing # {}
                THEN /\ ev' = [op |-> "check_compliance", user_id |-> user_id,
                               business_type |-> business_type,
                               due_date |-> Some(next_deadline), inserted |-> FALSE,
                               deadline |-> CHOOSE i \in existing :
                                                \A j \in existing : i <= j]
                     /\ UNCHANGED deadlines
                ELSE /\ deadlines' = Append(deadlines, deadline)
                     /\ ev' = [op |-> "check_compliance", user_id |-> user_id,
                               business_type |-> business_type,
                               due_date |-> Some(next_deadline), inserted |-> TRUE,
                               deadline |-> Len(deadlines) + 1]
       ELSE /\ ev' = [op |-> "check_compliance", user_id |-> user_id,
                      business_type |-> business_type,
                      due_date |-> NULL, inserted |-> FALSE, deadline |-> 0]
            /\ UNCHANGED deadlines
    /\ UNCHANGED <<now, notifications, sweep, deferred, delivered, probe>>

-----------------------------------------------------------------------------
(* The clock, the initial state and the request wrappers.                  *)

StartInstant == DateTime(2025, 3, 18, 18, 0)

\* The periodic triggers are driven from outside; the clock moves between
\* handler calls, in steps of ClockStep, at most max_steps times.
ClockStep == Hours(12)

Advance(max_steps) ==
    /\ Idle
    /\ now + ClockStep <= StartInstant + max_steps * ClockStep
    /\ now' = now + ClockStep
    /\ ev' = [op |-> "clock"]
    /\ UNCHANGED <<deadlines, notifications, sweep, deferred, delivered, probe>>

Init ==
    /\ now = StartInstant
    /\ deadlines = <<>>
    /\ notifications = <<>>
    /\ sweep = [active |-> FALSE, queue |-> <<>>, count |-> 0]
    /\ ev = [op |-> "init"]
    /\ deferred = {}
    /\ delivered = {}
    /\ probe = [kind |-> "none"]

Create(users, inputs, max_deadlines, max_rows) ==
    /\ Len(deadlines) < max_deadlines
    /\ \E user_id \in users, deadline_data \in inputs :
           CreateDeadline(user_id, deadline_data)
    /\ Len(notifications') <= max_rows

Update(users, inputs, max_rows) ==
    /\ \E deadline_id \in 1 .. Len(deadlines), user_id \in users,
          update_data \in inputs :
           UpdateDeadline(deadline_id, user_id, update_data)
    /\ Len(notifications') <= max_rows

Complete(users, max_deadlines, max_rows) ==
    /\ \E deadline_id \in 1 .. Len(deadlines), user_id \in users :
           MarkDeadlineCompleted(deadline_id, user_id)
    /\ Len(deadlines') <= max_deadlines
    /\ Len(notifications') <= max_rows

Compliance(users, document_types, business_types, max_deadlines) ==
    /\ \E document_type \in document_types, business_type \in business_types,
          user_id \in users :
           CheckCompliance(document_type, business_type, user_id)
    /\ Len(deadlines') <= max_deadlines

Sweep ==
    \/ SweepBegin
    \/ \E provider_ok \in BOOLEAN : SweepStep(provider_ok)
    \/ SweepReturn

Task ==
    \E notification_id \in 1 .. Len(notifications), provider_ok \in BOOLEAN :
        SendNotificationTask(notification_id, provider_ok)

Bulk(inputs, max_rows) ==
    /\ Len(notifications) < max_rows
    /\ \E notification_data_list \in inputs, provider_ok \in BOOLEAN :
           SendBulkNotifications(notification_data_list, <<provider_ok>>)

-----------------------------------------------------------------------------
(* Spec: the dispatcher.  User 1 (Asia/Kolkata, quiet 22:00-08:00) owns     *)
(* deadlines whose one-day reminder falls at 05:30 local (quiet) or 12:00  *)
(* local (awake); the clock reaches 11:30 local and then 23:30 local.      *)

DispatchDeadlines ==
    {[deadline_type |-> "custom", due_date |-> d, reminder_days |-> <<1>>] :
        d \in {DateTime(2025, 3, 20, 0, 0), DateTime(2025, 3, 20, 6, 30)}}

DispatchBulk ==
    {<<[user_id |-> 1, deadline_id |-> NULL, message |-> <<>>,
        notification_type |-> "email",
        scheduled_for |-> DateTime(2025, 3, 18, 6, 30)]>>}

\* Every instant of the model lies before Horizon: a deferral that would
\* schedule a row past it (a task run again and again on a quiet row) is cut.
Horizon == StartInstant + MaxClockSteps * ClockStep + Days(1)

InHorizon ==
    \A i \in 1 .. Len(notifications') : notifications'[i].scheduled_for <= Horizon

Next ==
    \/ Advance(MaxClockSteps)
    \/ Create({1}, DispatchDeadlines, MaxDispatchDeadlines, MaxDispatchRows)
    \/ Bulk(DispatchBulk, MaxDispatchRows)
    \/ Sweep
    \/ Task /\ InHorizon

Spec == Init /\ [][Next]_vars

-----------------------------------------------------------------------------
(* SpecSweepFaults: the dispatcher of Spec with a store whose commit may   *)
(* fail during a sweep.                                                    *)

SweepFault == \E provider_ok \in BOOLEAN : SweepStepFault(provider_ok)

NextSweepFaults ==
    \/ Advance(MaxClockSteps)
    \/ Create({1}, DispatchDeadlines, MaxDispatchDeadlines, MaxDispatchRows)
    \/ Bulk(DispatchBulk, MaxDispatchRows)
    \/ Sweep
    \/ SweepFault

SpecSweepFaults == Init /\ [][NextSweepFaults]_vars

-----------------------------------------------------------------------------
(* SpecLifecycle: create, update and complete, with the scheduler's        *)
(* fan-out.  The clock stands at StartInstant (2025-03-18T18:00Z).         *)

LifecycleDeadlines ==
    {[deadline_type |-> "custom", due_date |-> DateTime(2025, 3, 31, 6, 30)],
     [deadline_type |-> "custom", due_date |-> DateTime(2025, 3, 20, 0, 0),
      is_recurring |-> TRUE, recurrence_pattern |-> "monthly",
      reminder_days |-> <<3, 1>>],
     [deadline_type |-> "custom", due_date |-> DateTime(2025, 3, 31, 6, 30),
      is_recurring |-> TRUE, recurrence_pattern |-> "monthly",
      reminder_days |-> <<1>>]}

LifecycleUpdates ==
    {[due_date |-> DateTime(2025, 3, 31, 6, 30)], [reminder_days |-> <<3, 1>>]}

NextLifecycle ==
    \/ Create({1}, LifecycleDeadlines, MaxDeadlines, MaxNotifications)
    \/ Update({1, 2}, LifecycleUpdates, MaxNotifications)
    \/ Complete({1, 2}, MaxDeadlines, MaxNotifications)

SpecLifecycle == Init /\ [][NextLifecycle]_vars

-----------------------------------------------------------------------------
(* SpecSchedule: the scheduler's fan-out over every kind of user, with     *)
(* lead times in the future, in the past and exactly at the clock.         *)

ScheduleDues ==
    {DateTime(2025, 3, 19, 18, 0), DateTime(2025, 3, 20, 0, 0),
     DateTime(2025, 3, 31, 6, 30)}

ScheduleDeadlines ==
    {[deadline_type |-> "custom", due_date |-> d] : d \in ScheduleDues}
    \cup
    {[deadline_type |-> "custom", due_date |-> d, reminder_days |-> <<1, 3>>] :
        d \in ScheduleDues}

ScheduleUpdates ==
    {[due_date |-> DateTime(2025, 3, 31, 6, 30)], [reminder_days |-> <<1>>]}

NextSchedule ==
    \/ Create(Users, ScheduleDeadlines, MaxScheduleDeadlines, MaxScheduleRows)
    \/ Update(Users, ScheduleUpdates, MaxScheduleRows)

SpecSchedule == Init /\ [][NextSchedule]_vars

-----------------------------------------------------------------------------
(* SpecGst: compliance checks as the clock moves.                          *)

NextGst ==
    \/ Advance(MaxGstClockSteps)
    \/ Compliance({1, 2}, {"gst", "contract"},
                  {"monthly", "quarterly", "composition"},
                  MaxGstDeadlines)

SpecGst == Init /\ [][NextGst]_vars

-----------------------------------------------------------------------------
(* SpecFaults: the lifecycle manager with a store that may fail at any     *)
(* commit.  User 1 has two channels, so a scheduling run has two inserts   *)
(* per lead time.                                                          *)

\* the commits of one operation that may fail: the Deadline write (0) or one
\* of the scheduler's inserts
FaultPoints == 0 .. 2

FaultDeadlines ==
    {[deadline_type |-> "custom", due_date |-> DateTime(2025, 3, 20, 6, 30),
      reminder_days |-> <<1>>],
     [deadline_type |-> "custom", due_date |-> DateTime(2025, 3, 20, 6, 30),
      is_recurring |-> TRUE, recurrence_pattern |-> "weekly",
      reminder_days |-> <<1>>]}

FaultUpdates == {[due_date |-> DateTime(2025, 3, 21, 6, 30)]}

CreateFault(users, inputs, max_deadlines, max_rows) ==
    /\ Len(deadlines) < max_deadlines
    /\ \E user_id \in users, deadline_data \in inputs, fault_at \in FaultPoints :
           CreateDeadlineFault(user_id, deadline_data, fault_at)
    /\ Len(notifications') <= max_rows

UpdateFault(users, inputs, max_rows) ==
    /\ \E deadline_id \in 1 .. Len(deadlines), user_id \in users,
          update_data \in inputs, fault_at \in FaultPoints :
           UpdateDeadlineFault(deadline_id, user_id, update_data, fault_at)
    /\ Len(notifications') <= max_rows

CompleteFault(users, max_deadlines, max_rows) ==
    /\ \E deadline_id \in 1 .. Len(deadlines), user_id \in users,
          fault_at \in FaultPoints :
           MarkDeadlineCompletedFault(deadline_id, user_id, fault_at)
    /\ Len(deadlines') <= max_deadlines
    /\ Len(notifications') <= max_rows

NextFaults ==
    \/ Create({1}, FaultDeadlines, MaxFaultDeadlines, MaxFaultRows)
    \/ Update({1}, FaultUpdates, MaxFaultRows)
    \/ Complete({1}, MaxFaultDeadlines, MaxFaultRows)
    \/ CreateFault({1}, FaultDeadlines, MaxFaultDeadlines, MaxFaultRows)
    \/ UpdateFault({1}, FaultUpdates, MaxFaultRows)
    \/ CompleteFault({1}, MaxFaultDeadlines, MaxFaultRows)

SpecFaults == Init /\ [][NextFaults]_vars

-----------------------------------------------------------------------------
(* SpecOwnership: two users create Deadlines; user 2 then calls update,    *)
(* complete and delete with every id, its own, user 1's, deleted ones and  *)
(* ids that were never issued.                                             *)

OwnershipCaller == 2

OwnershipDeadlines ==
    {[deadline_type |-> "custom", due_date |-> DateTime(2025, 3, 20, 6, 30),
      reminder_days |-> <<1>>],
     [deadline_type |-> "custom", due_date |-> DateTime(2025, 3, 20, 6, 30),
      is_recurring |-> TRUE, recurrence_pattern |-> "weekly",
      reminder_days |-> <<1>>]}

OwnershipUpdates ==
    {[due_date |-> DateTime(2025, 3, 21, 6, 30)], [reminder_days |-> <<3, 1>>]}

UpdateById(max_rows) ==
    /\ \E deadline_id \in 1 .. Len(deadlines) + 1, update_data \in OwnershipUpdates :
           UpdateDeadline(deadline_id, OwnershipCaller, update_data)
    /\ Len(notifications') <= max_rows

CompleteById(max_deadlines, max_rows) ==
    /\ \E deadline_id \in 1 .. Len(deadlines) + 1 :
           MarkDeadlineCompleted(deadline_id, OwnershipCaller)
    /\ Len(deadlines') <= max_deadlines
    /\ Len(notifications') <= max_rows

DeleteById ==
    \E deadline_id \in 1 .. Len(deadlines) + 1 :
        DeleteDeadline(deadline_id, OwnershipCaller)

NextOwnership ==
    \/ Create({1, 2}, OwnershipDeadlines, MaxOwnedDeadlines, MaxOwnedRows)
    \/ UpdateById(MaxOwnedRows)
    \/ CompleteById(MaxOwnedDeadlines, MaxOwnedRows)
    \/ DeleteById

SpecOwnership == Init /\ [][NextOwnership]_vars

-----------------------------------------------------------------------------
(* SpecRetention: scheduling, sweeps, single sends, manual marking and the *)
(* retention pass over a clock that moves in steps of 30 days, so that    *)
(* rows sent at one instant are exactly 30 and then 60 days old later.    *)

RetentionClockStep == Days(30)

AdvanceDays(max_steps) ==
    /\ Idle
    /\ now + RetentionClockStep <= StartInstant + max_steps * RetentionClockStep
    /\ now' = now + RetentionClockStep
    /\ ev' = [op |-> "clock"]
    /\ UNCHANGED <<deadlines, notifications, sweep, deferred, delivered, probe>>

RetentionDeadlines ==
    {[deadline_type |-> "custom", due_date |-> DateTime(2025, 3, 20, 6, 30),
      reminder_days |-> <<1>>]}

Mark(users) ==
    \E notification_id \in 1 .. Len(notifications), user_id \in users :
        MarkNotificationSent(notification_id, user_id)

NextRetention ==
    \/ AdvanceDays(MaxRetentionClockSteps)
    \/ Create({1}, RetentionDeadlines, MaxRetentionDeadlines, MaxRetentionRows)
    \/ Sweep
    \/ Task
    \/ Mark({1, 2})
    \/ CleanupOldNotifications

SpecRetention == Init /\ [][NextRetention]_vars

-----------------------------------------------------------------------------
(* SpecRace: two workers run process_pending_notifications at the same     *)
(* time, each in its own database session.  A session holds the rows its   *)
(* query loaded; session.commit() expires them, so a row processed after   *)
(* the session's first commit is read again from the table, and a row      *)
(* processed before it is seen as the query loaded it.  At commit the      *)
(* session writes the columns whose value differs from the value it had    *)
(* read, and only those.  Each send takes a minute of the clock.           *)

RaceWorkers == {1, 2}

\* the Deadline whose reminders the workers race on: due 2025-03-20T06:30,
\* one day of lead, owned by user 2 (email, sms, whatsapp and push)
RaceDeadline ==
    NewDeadline(2, "custom", DateTime(2025, 3, 20, 6, 30), FALSE, "None",
                <<1>>, StartInstant)

NewSession ==
    [pc |-> "idle", queue |-> <<>>, count |-> 0, snapshot |-> <<>>,
     committed |-> FALSE, write |-> <<>>]

\* the tables after create_deadline at StartInstant, a day later
InitRace ==
    /\ now = StartInstant + Days(1)
    /\ deadlines = <<RaceDeadline>>
    /\ notifications = schedule_deadline_notifications(1, RaceDeadline, StartInstant)
    /\ sweep = [w \in RaceWorkers |-> NewSession]
    /\ ev = [op |-> "init"]
    /\ deferred = {}
    /\ delivered = {}
    /\ probe = [kind |-> "none"]

\* process_pending_notifications in worker w: the query
RaceBegin(w) ==
    /\ sweep[w].pc = "idle"
    /\ LET pending_notifications == get_pending_notifications(notifications, now)
       IN  /\ sweep' = [sweep EXCEPT ![w] =
                  [NewSession EXCEPT !.pc = "loop",
                                     !.queue = pending_notifications,
                                     !.count = Len(pending_notifications),
                                     !.snapshot = notifications]]
           /\ ev' = [op |-> "sweep_begin", selected |-> pending_notifications]
    /\ UNCHANGED <<now, deadlines, notifications, deferred, delivered, probe>>

\* send_notification in worker w up to its commit: the row as the session
\* sees it, the quiet-hours test, the Channel Sender, the attributes set
RaceSend(w, provider_ok) ==
    /\ sweep[w].pc = "loop"
    /\ sweep[w].queue # <<>>
    /\ LET id == Head(sweep[w].queue)
           seen == IF sweep[w].committed THEN notifications[id]
                   ELSE sweep[w].snapshot[id]
           sent == send_notification(
                       [ns |-> [notifications EXCEPT ![id] = seen], ev |-> ev,
                        deferred |-> deferred, delivered |-> delivered],
                       id, "sweep", provider_ok, now)
       IN  /\ ev' = sent.ev
           /\ deferred' = sent.deferred
           /\ delivered' = sent.delivered
           /\ sweep' = [sweep EXCEPT ![w].pc = "commit",
                                     ![w].write = <<[id |-> id, read |-> seen,
                                                     set |-> sent.ns[id]]>>]
    /\ now' = now + 1
    /\ UNCHANGED <<deadlines, notifications, probe>>

\* the UPDATE a session flushes: the columns that differ from what it read
Flushed(row, read, set) ==
    [column \in DOMAIN row |->
        IF set[column] # read[column] THEN set[column] ELSE row[column]]

\* db.session.commit() at the end of send_notification in worker w
RaceCommit(w) ==
    /\ sweep[w].pc = "commit"
    /\ LET write == sweep[w].write[1]
       IN  /\ notifications' =
                  [notifications EXCEPT
                      ![write.id] = Flushed(@, write.read, write.set)]
           /\ ev' = [op |-> "commit", id |-> write.id]
    /\ sweep' = [sweep EXCEPT ![w].pc = "loop",
                              ![w].queue = Tail(sweep[w].queue),
                              ![w].committed = TRUE,
                              ![w].write = <<>>]
    /\ UNCHANGED <<now, deadlines, deferred, delivered, probe>>

\* process_pending_notifications in worker w: return len(pending_notifications)
RaceReturn(w) ==
    /\ sweep[w].pc = "loop"
    /\ sweep[w].queue = <<>>
    /\ sweep' = [sweep EXCEPT ![w].pc = "done"]
    /\ ev' = [op |-> "sweep_return", count |-> sweep[w].count]
    /\ UNCHANGED <<now, deadlines, notifications, deferred, delivered, probe>>

NextRace ==
    \E w \in RaceWorkers :
        \/ RaceBegin(w)
        \/ \E provider_ok \in BOOLEAN : RaceSend(w, provider_ok)
        \/ RaceCommit(w)
        \/ RaceReturn(w)

SpecRace == InitRace /\ [][NextRace]_vars

-----------------------------------------------------------------------------
(* SpecSeries: recurring series.  Deadlines are created by hand (with and  *)
(* without a recurrence_pattern) and by the GST generator (monthly,        *)
(* quarterly and annual cadence), patched, and completed any number of     *)
(* times.  The clock stands at StartInstant.                               *)

SeriesDeadlines ==
    {[deadline_type |-> "custom", due_date |-> DateTime(2025, 3, 20, 6, 30),
      is_recurring |-> TRUE, recurrence_pattern |-> "weekly",
      reminder_days |-> <<1>>],
     [deadline_type |-> "custom", due_date |-> DateTime(2025, 3, 20, 6, 30),
      is_recurring |-> TRUE, reminder_days |-> <<1>>]}

SeriesUpdates ==
    {[is_recurring |-> TRUE], [recurrence_pattern |-> "None"]}

NextSeries ==
    \/ Create({1}, SeriesDeadlines, MaxSeriesDeadlines, MaxSeriesRows)
    \/ Update({1}, SeriesUpdates, MaxSeriesRows)
    \/ Complete({1}, MaxSeriesDeadlines, MaxSeriesRows)
    \/ Compliance({1}, {"gst"}, {"monthly", "quarterly", "annual"},
                  MaxSeriesDeadlines)

SpecSeries == Init /\ [][NextSeries]_vars

-----------------------------------------------------------------------------
(* SpecQuiet: the quiet-hours functions on their own.  The initial state   *)
(* draws a preference record, a zone name and an instant (every half hour  *)
(* of 2025-03-09, the day daylight saving time begins in New York, and of  *)
(* 2025-03-19, UTC); the one action applies the two functions.             *)

QuietPrefs ==
    {[k \in {} |-> TRUE],
     [quiet_hours_start |-> <<22, 0>>, quiet_hours_end |-> <<8, 0>>],
     [quiet_hours_start |-> <<13, 0>>, quiet_hours_end |-> <<15, 0>>],
     [quiet_hours_start |-> <<9, 0>>, quiet_hours_end |-> <<9, 0>>],
     [quiet_hours_start |-> <<0, 0>>, quiet_hours_end |-> <<23, 59>>],
     [quiet_hours_start |-> <<22, 0>>, quiet_hours_end |-> <<24, 0>>]}

QuietZones ==
    {"Asia/Kolkata", "UTC", "America/Bogota", "America/New_York", "Mars/Olympus"}

QuietInstants ==
    {DateTime(2025, 3, d, 0, 0) + 30 * k : d \in {9, 19}, k \in 0 .. 47}

InitQuiet ==
    /\ now = StartInstant
    /\ deadlines = <<>>
    /\ notifications = <<>>
    /\ sweep = [active |-> FALSE, queue |-> <<>>, count |-> 0]
    /\ ev = [op |-> "init"]
    /\ deferred = {}
    /\ delivered = {}
    /\ probe \in {[kind |-> "quiet_input", prefs |-> p, timezone |-> z,
                   notification_time |-> t] :
                     p \in QuietPrefs, z \in QuietZones, t \in QuietInstants}

ApplyQuiet ==
    /\ probe.kind = "quiet_input"
    /\ probe' = [kind |-> "quiet_result", prefs |-> probe.prefs,
                 timezone |-> probe.timezone,
                 notification_time |-> probe.notification_time,
                 is_quiet |-> IsQuiet(probe.prefs, probe.timezone,
                                      probe.notification_time),
                 next_time |-> NextAvailable(probe.prefs, probe.timezone,
                                             probe.notification_time)]
    /\ UNCHANGED <<now, deadlines, notifications, sweep, ev, deferred, delivered>>

SpecQuiet == InitQuiet /\ [][ApplyQuiet]_vars

-----------------------------------------------------------------------------
(* SpecNextDue: the recurrence calculator on its own.  The initial state   *)
(* draws a due date (the 1st, the 15th and the last four days of every     *)
(* month of 2024 and 2025, at 09:30) and a pattern string; the one action  *)
(* applies the function.                                                   *)

NextDueDates ==
    {DateTime(y, m, d, 9, 30) :
        <<y, m, d>> \in {ymd \in {2024, 2025} \X (1 .. 12) \X {1, 15, 28, 29, 30, 31} :
                            ymd[3] <= DaysInMonth(ymd[1], ymd[2])}}

NextDuePatterns ==
    {"daily", "weekly", "monthly", "quarterly", "annually", "yearly", "fortnightly"}

InitNextDue ==
    /\ now = StartInstant
    /\ deadlines = <<>>
    /\ notifications = <<>>
    /\ sweep = [active |-> FALSE, queue |-> <<>>, count |-> 0]
    /\ ev = [op |-> "init"]
    /\ deferred = {}
    /\ delivered = {}
    /\ probe \in {[kind |-> "next_due_input", current_due_date |-> d,
                   recurrence_pattern |-> p] :
                     d \in NextDueDates, p \in NextDuePatterns}

ApplyNextDue ==
    /\ probe.kind = "next_due_input"
    /\ probe' = [kind |-> "next_due_result",
                 current_due_date |-> probe.current_due_date,
                 recurrence_pattern |-> probe.recurrence_pattern,
                 result |-> _calculate_next_due_date(probe.current_due_date,
                                                     probe.recurrence_pattern)]
    /\ UNCHANGED <<now, deadlines, notifications, sweep, ev, deferred, delivered>>

SpecNextDue == InitNextDue /\ [][ApplyNextDue]_vars

-----------------------------------------------------------------------------
(* SpecNextDueSeries: the recurrence calculator applied along a series, as *)
(* _create_next_recurring_deadline does at each completion: the due date   *)
(* of one occurrence is the argument for the next.  Every pattern is       *)
(* applied once; the monthly series goes on for a year and more.           *)

SeriesDueDates == NextDueDates \cup {DateTime(2025, 3, 20, 0, 0)}

InitNextDueSeries ==
    /\ now = StartInstant
    /\ deadlines = <<>>
    /\ notifications = <<>>
    /\ sweep = [active |-> FALSE, queue |-> <<>>, count |-> 0]
    /\ ev = [op |-> "init"]
    /\ deferred = {}
    /\ delivered = {}
    /\ probe \in {[kind |-> "next_due_series", start |-> d, previous |-> d,
                   current |-> d, recurrence_pattern |-> p, steps |-> 0,
                   ok |-> TRUE] :
                     d \in SeriesDueDates, p \in NextDuePatterns}

StepNextDue ==
    /\ probe.kind = "next_due_series"
    /\ probe.ok
    /\ probe.steps < MaxNextDueSteps
    /\ probe.steps = 0 \/ probe.recurrence_pattern = "monthly"
    /\ LET next_due_date == _calculate_next_due_date(probe.current,
                                                     probe.recurrence_pattern)
       IN  probe' = [probe EXCEPT
                        !.previous = probe.current,
                        !.current = IF next_due_date.ok THEN next_due_date.val
                                    ELSE probe.current,
                        !.steps = probe.steps + 1,
                        !.ok = next_due_date.ok]
    /\ UNCHANGED <<now, deadlines, notifications, sweep, ev, deferred, delivered>>

SpecNextDueSeries == InitNextDueSeries /\ [][StepNextDue]_vars

-----------------------------------------------------------------------------
(* SpecGstDates: the GST deadline calculation on its own.  The initial     *)
(* state draws a cadence of gst_filing_deadlines and a clock reading (the  *)
(* 1st, 19th, 20th, 21st, 25th and the last four days of every month of    *)
(* 2024 and 2025, at 09:30); the one action applies the function.          *)

GstReferenceDates ==
    {DateTime(y, m, d, 9, 30) :
        <<y, m, d>> \in {ymd \in {2024, 2025} \X (1 .. 12)
                                  \X {1, 19, 20, 21, 25, 28, 29, 30, 31} :
                            ymd[3] <= DaysInMonth(ymd[1], ymd[2])}}

InitGstDates ==
    /\ now \in GstReferenceDates
    /\ deadlines = <<>>
    /\ notifications = <<>>
    /\ sweep = [active |-> FALSE, queue |-> <<>>, count |-> 0]
    /\ ev = [op |-> "init"]
    /\ deferred = {}
    /\ delivered = {}
    /\ probe \in {[kind |-> "gst_input", business_type |-> b] :
                     b \in DOMAIN gst_filing_deadlines}

ApplyGstDates ==
    /\ probe.kind = "gst_input"
    /\ probe' = [kind |-> "gst_result", business_type |-> probe.business_type,
                 next_deadline |->
                     _calculate_next_gst_deadline(probe.business_type,
                         gst_filing_deadlines[probe.business_type], now)]
    /\ UNCHANGED <<now, deadlines, notifications, sweep, ev, deferred, delivered>>

SpecGstDates == InitGstDates /\ [][ApplyGstDates]_vars

-----------------------------------------------------------------------------
(* Properties of the dispatcher (Spec).                                    *)

\* The owner's row and quiet-hours verdict for notification id at instant t.
OwnerOf(id) == UserRow(notifications[id].user_id)

\* C1: a notification whose is_sent is true is not selected by the pending
\* query of a sweep, stays out of the running sweep's work list, and no sweep
\* hands it to a Channel Sender.
C1_SweepSkipsSent ==
    /\ ev.op = "sweep_begin" =>
           \A k \in 1 .. Len(ev.selected) : ~notifications[ev.selected[k]].is_sent
    /\ sweep.active =>
           \A k \in 1 .. Len(sweep.queue) : ~notifications[sweep.queue[k]].is_sent
    /\ (ev.op = "send" /\ ev.via = "sweep") => ~ev.was_sent

\* A sweep starts while a delivered, due row sits in the table next to a due
\* row that is still unsent: the sweep selects the second and not the first.
C1_Witness ==
    /\ ev.op = "sweep_begin"
    /\ ev.selected # <<>>
    /\ \E i \in 1 .. Len(notifications) :
           /\ notifications[i].is_sent
           /\ notifications[i].scheduled_for <= now
           /\ i \in delivered

\* C2: at-most-once delivery over every entry point: no Channel Sender call is
\* made for a row whose is_sent is already true, and a row that was delivered
\* keeps is_sent = true.
C2_AtMostOnce ==
    /\ ev.op = "send" => ~ev.was_sent
    /\ \A id \in delivered : notifications[id].is_sent

\* C3: a notification that was deferred for quiet hours is, when a later sweep
\* selects it again, handed to its Channel Sender and not deferred once more.
C3_DeferredThenSent ==
    (ev.op = "defer" /\ ev.via = "sweep") => ~ev.again

\* C4: a sweep makes no Channel Sender call at an instant that lies inside the
\* recipient's quiet hours.
C4_NoSendInQuietHours ==
    (ev.op = "send" /\ ev.via = "sweep") => ~_is_quiet_hours(OwnerOf(ev.id), now)

-----------------------------------------------------------------------------
(* Properties of the quiet-hours functions (SpecQuiet).                    *)

\* C5: the instant the deferral computes lies outside the quiet window:
\* is_quiet(defer(t)) is false for every instant, window and zone.
C5_DeferLeavesQuietHours ==
    probe.kind = "quiet_result" =>
        ~IsQuiet(probe.prefs, probe.timezone, probe.next_time)

-----------------------------------------------------------------------------
(* Properties of the lifecycle manager and the scheduler                   *)
(* (SpecLifecycle, SpecSchedule).                                          *)

\* the new rows a step appends to the notifications table
Appended == SubSeq(notifications', Len(notifications) + 1, Len(notifications'))

\* C6: once update_deadline has changed a deadline's due date, the deadline has
\* at most one unsent notification per (lead time, channel), and every unsent
\* notification of it is scheduled relative to the new due date.
C6_OldRemindersSuperseded ==
    [][(/\ ev'.op = "update_deadline"
        /\ ev'.result = "ok"
        /\ deadlines'[ev'.deadline].due_date # deadlines[ev'.deadline].due_date)
       => LET d == ev'.deadline
              due == deadlines'[d].due_date
              unsent == {k \in 1 .. Len(notifications') :
                            /\ notifications'[k].deadline_id = Some(d)
                            /\ ~notifications'[k].is_sent}
          IN  /\ \A k \in unsent :
                     notifications'[k].scheduled_for
                         = due - Days(notifications'[k].message[1])
              /\ \A k1, k2 \in unsent :
                     (/\ notifications'[k1].message[1] = notifications'[k2].message[1]
                      /\ notifications'[k1].notification_type
                             = notifications'[k2].notification_type)
                     => k1 = k2]_vars

Channels == {"email", "sms", "whatsapp", "push"}

\* email and push are on unless switched off; sms and whatsapp are off unless
\* switched on, and need a phone number on file
ChannelEnabled(user_id, channel) ==
    LET user == UserRow(user_id)
        prefs == user.notification_preferences
    IN  IF channel \in {"email", "push"}
        THEN channel \in DOMAIN prefs => prefs[channel]
        ELSE channel \in DOMAIN prefs /\ prefs[channel] /\ user.phone # NULL

\* positions of the lead times whose reminder instant is still ahead of t
FutureLeads(dl, t) ==
    {i \in 1 .. Len(dl.reminder_days) : dl.due_date - Days(dl.reminder_days[i]) > t}

\* the deadline a step scheduled notifications for, if any
ScheduledFor(e) ==
    IF e.op = "create_deadline" THEN Some(e.deadline)
    ELSE IF e.op = "update_deadline" /\ e.rescheduled THEN Some(e.deadline)
    ELSE IF e.op = "mark_deadline_completed" THEN e.successor
    ELSE NULL

\* C7: every run of the scheduler appends exactly one unsent notification per
\* (future lead time, enabled channel), scheduled at due_date minus the lead
\* time, and nothing else; with leads [7, 3, 1] all ahead and four channels
\* that is 12 rows.
C7_ScheduleFanOut ==
    [][ScheduledFor(ev') # NULL
       => LET id == ScheduledFor(ev')[1]
              dl == deadlines'[id]
              leads == FutureLeads(dl, now)
              chans == {ch \in Channels : ChannelEnabled(dl.user_id, ch)}
          IN  /\ SubSeq(notifications', 1, Len(notifications)) = notifications
              /\ Len(Appended) = Cardinality(leads) * Cardinality(chans)
              /\ \A i \in leads, ch \in chans :
                     \E k \in 1 .. Len(Appended) :
                         Appended[k] =
                             [user_id |-> dl.user_id, deadline_id |-> Some(id),
                              message |-> <<dl.reminder_days[i],
                                            DayNumber(dl.due_date)>>,
                              notification_type |-> ch, is_sent |-> FALSE,
                              sent_at |-> NULL,
                              scheduled_for |->
                                  dl.due_date - Days(dl.reminder_days[i])]]_vars

\* A deadline with the default leads [7, 3, 1], all of them ahead, is created
\* for a user with four enabled channels: 12 rows, three per channel.
C7_Witness ==
    /\ ev.op = "create_deadline"
    /\ deadlines[ev.deadline].reminder_days = <<7, 3, 1>>
    /\ Len(notifications) = 12
    /\ \A ch \in Channels :
           Cardinality({k \in 1 .. Len(notifications) :
                           notifications[k].notification_type = ch}) = 3

\* C10: completing a deadline marks it completed and leaves every other field
\* and every other deadline alone; for a recurring deadline exactly one
\* successor is appended, with the same owner, type, pattern and lead times, not
\* completed, due at next_due(original due date, pattern), and the rows
\* appended to the notifications table are the successor's; for a
\* non-recurring deadline nothing is appended.
C10_CompleteRecurring ==
    [][(ev'.op = "mark_deadline_completed" /\ ev'.result # "not_found")
       => LET id == ev'.deadline
              old == deadlines[id]
              next_due == _calculate_next_due_date(old.due_date,
                                                    old.recurrence_pattern)
          IN  /\ deadlines'[id] = [old EXCEPT !.is_completed = TRUE,
                                               !.completed_at = Some(now)]
              /\ \A j \in (1 .. Len(deadlines)) \ {id} : deadlines'[j] = deadlines[j]
              /\ IF old.is_recurring /\ Truthy(old.recurrence_pattern)
                 THEN /\ Len(deadlines') = Len(deadlines) + 1
                      /\ next_due.ok
                      /\ deadlines'[Len(deadlines')] =
                             [old EXCEPT !.due_date = next_due.val,
                                         !.created_at = now]
                      /\ \A k \in 1 .. Len(Appended) :
                             Appended[k].deadline_id = Some(Len(deadlines'))
                 ELSE /\ Len(deadlines') = Len(deadlines)
                      /\ notifications' = notifications]_vars

-----------------------------------------------------------------------------
(* Properties of the GST deadline generator (SpecGst).                     *)

\* the GST_FILING rows of a user due at an instant, in table ds
GstRows(ds, user_id, due_date) ==
    {i \in 1 .. Len(ds) :
        /\ ds[i].user_id = user_id
        /\ ds[i].deadline_type = "gst_filing"
        /\ ds[i].due_date = due_date}

\* C8: a compliance check that computes a GST due date leaves exactly one
\* GST_FILING row for (user, due date): it inserts one when there was none,
\* and when the row exists (a second check at the same instant) it returns
\* that row and inserts nothing.
C8_GstIdempotent ==
    [][(ev'.op = "check_compliance" /\ ev'.due_date # NULL)
       => LET before == GstRows(deadlines, ev'.user_id, ev'.due_date[1])
              after == GstRows(deadlines', ev'.user_id, ev'.due_date[1])
          IN  /\ Cardinality(after) = 1
              /\ ev'.deadline \in after
              /\ IF before = {}
                 THEN ev'.inserted /\ Len(deadlines') = Len(deadlines) + 1
                 ELSE ~ev'.inserted /\ deadlines' = deadlines]_vars

\* The second of two checks at one instant: the row the first one inserted at
\* this instant is found and nothing is inserted.
C8_Witness ==
    /\ ev.op = "check_compliance"
    /\ ev.due_date # NULL
    /\ ~ev.inserted
    /\ deadlines[ev.deadline].created_at = now

\* C9: checks made at different instants of one filing cycle leave one GST
\* deadline for the cycle: no two GST_FILING rows of a user and cadence are
\* due on the same calendar day.
C9_OneGstDeadlinePerCycle ==
    \A i, j \in 1 .. Len(deadlines) :
        (/\ deadlines[i].deadline_type = "gst_filing"
         /\ deadlines[j].deadline_type = "gst_filing"
         /\ deadlines[i].user_id = deadlines[j].user_id
         /\ deadlines[i].recurrence_pattern = deadlines[j].recurrence_pattern
         /\ DayNumber(deadlines[i].due_date) = DayNumber(deadlines[j].due_date))
        => i = j

-----------------------------------------------------------------------------
(* Properties of the recurrence calculator (SpecNextDue).                  *)

\* C11: next_due is total: for every due date and every pattern string it
\* returns an instant and does not raise.
C11_NextDueTotal ==
    probe.kind = "next_due_result" => probe.result.ok

-----------------------------------------------------------------------------
(* Properties of the lifecycle manager under store failures (SpecFaults).  *)

LifecycleOps == {"create_deadline", "update_deadline", "mark_deadline_completed"}

\* C12: a create, update or complete that reports an error leaves the
\* Deadline and Notification tables as they were before the operation.
C12_FailureRollsBack ==
    [][(ev'.op \in LifecycleOps /\ ev'.result = "error")
       => (deadlines' = deadlines /\ notifications' = notifications)]_vars

\* C13: when one insert of the scheduling run fails, the surrounding create,
\* update or complete still succeeds and every other row of the run is there.
C13_ScheduleBestEffort ==
    [][(/\ ev'.op \in LifecycleOps
        /\ "fault_at" \in DOMAIN ev'
        /\ ev'.fault_at >= 1)
       => LET id == ScheduledFor(ev')[1]
              rows == schedule_deadline_notifications(id, deadlines'[id], now)
          IN  /\ ev'.result = "ok"
              /\ Appended = SubSeq(rows, 1, ev'.fault_at - 1)
                              \o SubSeq(rows, ev'.fault_at + 1, Len(rows))]_vars

-----------------------------------------------------------------------------
(* Properties of the ownership check (SpecOwnership).                      *)

OwnershipOps == {"update_deadline", "mark_deadline_completed", "delete_deadline"}

\* C14: update, complete and delete called by a user who does not own the
\* Deadline, or with an id that has no row, report not-found and leave every
\* Deadline and Notification row as it was; whatever the caller does, no
\* Deadline of another user is modified or deleted.
C14_OwnershipChecked ==
    [][/\ (/\ ev'.op \in OwnershipOps
           /\ \/ ev'.deadline \notin 1 .. Len(deadlines)
              \/ deadlines[ev'.deadline].user_id # OwnershipCaller)
          => /\ ev'.result = "not_found"
             /\ deadlines' = deadlines
             /\ notifications' = notifications
       /\ ev'.op \in OwnershipOps
          => \A id \in 1 .. Len(deadlines) :
                 deadlines[id].user_id # OwnershipCaller
                     => deadlines'[id] = deadlines[id]]_vars

\* user 2 has called delete on a Deadline that exists and belongs to user 1
C14_Witness ==
    /\ ev.op = "delete_deadline"
    /\ ev.result = "not_found"
    /\ ev.deadline \in 1 .. Len(deadlines)
    /\ deadlines[ev.deadline].user_id = 1
    /\ Len(notifications) > 0

-----------------------------------------------------------------------------
(* Properties of the sweep under store failures (SpecSweepFaults).         *)

\* C15: a sweep ends only by returning, with every selected Notification
\* processed and the number selected as its result, whatever failed on the
\* way.
C15_SweepNeverAborts ==
    [][(sweep.active /\ ~sweep'.active)
       => (/\ sweep.queue = <<>>
           /\ ev'.op = "sweep_return"
           /\ ev'.count = sweep.count)]_vars

-----------------------------------------------------------------------------
(* Properties of the dispatcher on channel failure (Spec).                 *)

\* C16: when the channel reports failure (the provider refuses, or the
\* credentials are not configured), the row is unsent with no sent_at; in a
\* sweep the loop goes on and the row satisfies the sweep's query again.
C16_FailedSendRetried ==
    (ev.op = "send" /\ ~ev.success)
        => /\ ~notifications[ev.id].is_sent
           /\ notifications[ev.id].sent_at = NULL
           /\ ev.via = "sweep"
              => /\ sweep.active
                 /\ \E i \in 1 .. Len(get_pending_notifications(notifications, now)) :
                        get_pending_notifications(notifications, now)[i] = ev.id

\* a sweep has just failed to send a row and has more rows to process
C16_Witness ==
    /\ ev.op = "send"
    /\ ev.via = "sweep"
    /\ ~ev.success
    /\ sweep.queue # <<>>

-----------------------------------------------------------------------------
(* Properties of the sent marker and of retention (SpecRetention).         *)

\* C17: in every state reached by scheduling, sweeps, single sends, manual
\* marking and retention, a Notification with is_sent = true has a sent_at.
C17_SentHasSentAt ==
    \A i \in 1 .. Len(notifications) :
        (Exists(notifications[i]) /\ notifications[i].is_sent)
            => notifications[i].sent_at # NULL

\* a row has just been marked sent by hand while another was delivered by
\* the dispatcher
C17_Witness ==
    /\ ev.op = "mark_notification_sent"
    /\ ev.result = "ok"
    /\ ev.id \notin delivered
    /\ \E i \in delivered : Exists(notifications[i]) /\ notifications[i].is_sent

\* C18: the retention pass deletes exactly the Notifications that are sent
\* and whose sent_at is earlier than now minus 30 days; unsent rows and rows
\* sent within the last 30 days stay as they are, and so does every Deadline.
C18_RetentionExact ==
    [][ev'.op = "cleanup_old_notifications"
       => /\ deadlines' = deadlines
          /\ Len(notifications') = Len(notifications)
          /\ \A i \in 1 .. Len(notifications) :
                 Exists(notifications[i])
                     => IF /\ notifications[i].is_sent
                           /\ notifications[i].sent_at # NULL
                           /\ notifications[i].sent_at[1] < now - Days(30)
                        THEN ~Exists(notifications'[i])
                        ELSE notifications'[i] = notifications[i]]_vars

\* a retention pass has deleted a row and left an unsent one
C18_Witness ==
    /\ ev.op = "cleanup_old_notifications"
    /\ ev.deleted # {}
    /\ \E i \in 1 .. Len(notifications) :
           Exists(notifications[i]) /\ ~notifications[i].is_sent

-----------------------------------------------------------------------------
(* Properties of Deadline creation and the scheduler (SpecGst, and the     *)
(* lifecycle specifications).                                              *)

\* C20: whenever a Deadline row is created, by whichever path, the scheduler
\* runs for it: for each of its lead times still ahead and each channel its
\* owner has enabled there is a Notification of the new Deadline.
C20_CreationScheduled ==
    [][Len(deadlines') > Len(deadlines)
       => LET id == Len(deadlines')
              dl == deadlines'[id]
          IN  \A i \in FutureLeads(dl, now), ch \in Channels :
                  ChannelEnabled(dl.user_id, ch)
                      => \E k \in 1 .. Len(notifications') :
                             /\ notifications'[k].deadline_id = Some(id)
                             /\ notifications'[k].notification_type = ch
                             /\ notifications'[k].scheduled_for =
                                    dl.due_date - Days(dl.reminder_days[i])]_vars

-----------------------------------------------------------------------------
(* Properties of concurrent sweeps (SpecRace).                             *)

\* C19: when both sweeps have returned, the rows are as after sequential
\* sweeps apart from duplicate sends: a row is marked sent only if it was
\* delivered, every delivered row is marked sent, and a row marked sent has
\* a sent_at.
C19_RaceOnlyDuplicates ==
    (\A w \in RaceWorkers : sweep[w].pc = "done")
        => \A id \in 1 .. Len(notifications) :
               /\ notifications[id].is_sent => id \in delivered
               /\ id \in delivered => notifications[id].is_sent
               /\ notifications[id].is_sent => notifications[id].sent_at # NULL

-----------------------------------------------------------------------------
(* Properties of recurring series (SpecSeries).                            *)

\* C21: in every state reached by create, update, complete and GST
\* generation, a Deadline with is_recurring = true has a recurrence_pattern.
C21_RecurringHasPattern ==
    \A id \in 1 .. Len(deadlines) :
        deadlines[id].is_recurring => deadlines[id].recurrence_pattern # "None"


\* C29: completing a Deadline that is already completed spawns no further
\* successor, so a recurring Deadline has at most one successor however
\* often complete is called on it.
C29_OneSuccessorPerOccurrence ==
    [][(/\ ev'.op = "mark_deadline_completed"
        /\ ev'.result # "not_found"
        /\ deadlines[ev'.deadline].is_completed)
       => Len(deadlines') = Len(deadlines)]_vars

\* the recurrence_pattern the calculator knows for a GST cadence
CadencePattern(business_type) ==
    IF business_type = "annual" THEN "annually" ELSE business_type

\* C30: completing a Deadline the GST generator created succeeds and appends
\* a successor due one period of its cadence later (a month, three months,
\* a year).
C30_GeneratedSeriesAdvances ==
    [][(/\ ev'.op = "mark_deadline_completed"
        /\ ev'.result # "not_found"
        /\ deadlines[ev'.deadline].deadline_type = "gst_filing")
       => LET old == deadlines[ev'.deadline]
              next_due == _calculate_next_due_date(old.due_date,
                              CadencePattern(old.recurrence_pattern))
          IN  /\ ev'.result = "ok"
              /\ ev'.successor # NULL
              /\ next_due.ok
              /\ Len(deadlines') = Len(deadlines) + 1
              /\ deadlines'[Len(deadlines')].due_date = next_due.val]_vars

-----------------------------------------------------------------------------
(* Further properties of the recurrence calculator (SpecNextDue).          *)

RecognisedPatterns == {"daily", "weekly", "monthly", "quarterly", "annually"}

\* C23: for every due date, a pattern string the calculator does not
\* recognise gives what the pattern monthly gives for that date.
C23_UnknownPatternIsMonthly ==
    (/\ probe.kind = "next_due_result"
     /\ probe.recurrence_pattern \notin RecognisedPatterns)
        => probe.result = _calculate_next_due_date(probe.current_due_date, "monthly")


\* the instant n months after t with the same day of the month and time
MonthsLater(t, n) ==
    LET months == YearOf(t) * 12 + (MonthOf(t) - 1) + n
    IN  DateTime(months \div 12, (months % 12) + 1, DayOf(t), 0, 0) + MinuteOfDay(t)

\* C22: wherever the calculator returns, the result is strictly later than
\* the due date: a day later for daily, seven days for weekly, the same day
\* and time one month later for monthly, three months later for quarterly,
\* one year later for annually, with the year rolling over; 2025-03-20T00:00
\* monthly gives 2025-04-20T00:00, and twelve monthly steps give the same
\* day and time one year on.
C22_NextDueValues ==
    (/\ probe.kind = "next_due_series"
     /\ probe.steps >= 1
     /\ probe.ok
     /\ probe.recurrence_pattern \in RecognisedPatterns)
        => /\ probe.current > probe.previous
           /\ probe.current =
                  CASE probe.recurrence_pattern = "daily" ->
                          probe.previous + Days(1)
                    [] probe.recurrence_pattern = "weekly" ->
                          probe.previous + Days(7)
                    [] probe.recurrence_pattern = "monthly" ->
                          MonthsLater(probe.previous, 1)
                    [] probe.recurrence_pattern = "quarterly" ->
                          MonthsLater(probe.previous, 3)
                    [] probe.recurrence_pattern = "annually" ->
                          MonthsLater(probe.previous, 12)
           /\ (/\ probe.recurrence_pattern = "monthly"
               /\ probe.steps = 1
               /\ probe.start = DateTime(2025, 3, 20, 0, 0))
                  => probe.current = DateTime(2025, 4, 20, 0, 0)
           /\ (probe.recurrence_pattern = "monthly" /\ probe.steps = 12)
                  => probe.current = MonthsLater(probe.start, 12)

\* a monthly series that began on 2025-03-20T00:00 has advanced twelve times
C22_Witness ==
    /\ probe.kind = "next_due_series"
    /\ probe.recurrence_pattern = "monthly"
    /\ probe.start = DateTime(2025, 3, 20, 0, 0)
    /\ probe.steps = 12
    /\ probe.ok

-----------------------------------------------------------------------------
(* Properties of the GST deadline calculation (SpecGstDates).              *)

-----------------------------------------------------------------------------
(* Further properties of the quiet-hours functions (SpecQuiet).            *)

\* the user's local wall-clock time at the UTC instant t
LocalTime(tzname, t) == t + UtcOffset(tzname, t)

\* C25: for every instant inside quiet hours (the window's end being a time
\* of day), the deferred instant is strictly later than the instant, its
\* local time of day in the user's zone is the window's end, and it lies on
\* the same local day when the end is still ahead on that day and on the
\* next local day otherwise.
C25_DeferToQuietEnd ==
    (/\ probe.kind = "quiet_result"
     /\ probe.is_quiet
     /\ Get(probe.prefs, "quiet_hours_end", <<8, 0>>)[1] <= 23
     /\ Get(probe.prefs, "quiet_hours_end", <<8, 0>>)[2] <= 59)
        => LET quiet_end == Get(probe.prefs, "quiet_hours_end", <<8, 0>>)
               local_before == LocalTime(probe.timezone, probe.notification_time)
               local_after == LocalTime(probe.timezone, probe.next_time)
           IN  /\ probe.next_time > probe.notification_time
               /\ StrfHM(local_after) = quiet_end
               /\ DayNumber(local_after) =
                      IF quiet_end[1] * 60 + quiet_end[2] > MinuteOfDay(local_before)
                      THEN DayNumber(local_before)
                      ELSE DayNumber(local_before) + 1


\* minutes after midnight of an "HH:MM" value
MinutesOf(hhmm) == hhmm[1] * 60 + hhmm[2]

\* C26: for a user whose zone is known, the quiet-hours test is made on the
\* local time of the scheduled instant: with start <= end it holds exactly
\* from start to end, with start > end (a window over midnight) exactly
\* from start on or up to end, both ends included.
C26_IsQuietWindow ==
    (probe.kind = "quiet_result" /\ TzLookup(probe.timezone).ok)
        => LET quiet_start ==
                   MinutesOf(Get(probe.prefs, "quiet_hours_start", <<22, 0>>))
               quiet_end ==
                   MinutesOf(Get(probe.prefs, "quiet_hours_end", <<8, 0>>))
               local_time ==
                   MinuteOfDay(LocalTime(probe.timezone, probe.notification_time))
           IN  probe.is_quiet <=>
                   IF quiet_start <= quiet_end
                   THEN quiet_start <= local_time /\ local_time <= quiet_end
                   ELSE local_time >= quiet_start \/ local_time <= quiet_end

\* the test has been made at the very end of a window over midnight
C26_Witness ==
    /\ probe.kind = "quiet_result"
    /\ probe.is_quiet
    /\ probe.prefs = [quiet_hours_start |-> <<22, 0>>, quiet_hours_end |-> <<8, 0>>]
    /\ probe.timezone = "Asia/Kolkata"
    /\ StrfHM(LocalTime(probe.timezone, probe.notification_time)) = <<8, 0>>

-----------------------------------------------------------------------------
(* Properties of the deferral in a sweep (Spec).                           *)

\* C27: when a sweep finds a selected Notification inside quiet hours, the
\* step changes that row's scheduled_for and nothing else: the row stays
\* unsent with no sent_at, no Channel Sender delivers it, it is not taken up
\* again by this sweep, and every other Notification and every Deadline is
\* as before.
C27_DeferralOnlyReschedules ==
    [][(ev'.op = "defer" /\ ev'.via = "sweep")
       => /\ notifications' =
                 [notifications EXCEPT ![ev'.id].scheduled_for = ev'.to]
          /\ ~notifications'[ev'.id].is_sent
          /\ notifications'[ev'.id].sent_at = NULL
          /\ delivered' = delivered
          /\ \A i \in 1 .. Len(sweep'.queue) : sweep'.queue[i] # ev'.id
          /\ deadlines' = deadlines]_vars

\* a sweep has deferred one of two rows, and the other row is still in its
\* work list
C27_Witness ==
    /\ ev.op = "defer"
    /\ ev.via = "sweep"
    /\ ev.to > ev.from
    /\ Len(notifications) >= 2
    /\ sweep.queue # <<>>

-----------------------------------------------------------------------------
(* Custom compliance rules: ComplianceService._evaluate_rule_conditions.   *)
(* A JSON value is None, an integer or a string; a string is the sequence  *)
(* of its characters, so that str(), float() and the substring test are    *)
(* computed rather than assumed.                                           *)

None == [kind |-> "none"]
Num(n) == [kind |-> "num", n |-> n]
Str(s) == [kind |-> "str", s |-> s]

Digits == <<"0", "1", "2", "3", "4", "5", "6", "7", "8", "9">>

RECURSIVE NatStr(_)
NatStr(n) ==
    IF n < 10 THEN <<Digits[n + 1]>>
    ELSE NatStr(n \div 10) \o <<Digits[(n % 10) + 1]>>

\* str(user_value)
PyStr(v) ==
    CASE v.kind = "none" -> <<"N", "o", "n", "e">>
      [] v.kind = "num" -> IF v.n < 0 THEN <<"-">> \o NatStr(0 - v.n)
                           ELSE NatStr(v.n)
      [] v.kind = "str" -> v.s

\* value in text, for two strings
IsSubstring(value, text) ==
    \E i \in 0 .. Len(text) :
        /\ i + Len(value) <= Len(text)
        /\ \A j \in 1 .. Len(value) : text[i + j] = value[j]

DigitValue(c) == CHOOSE d \in 0 .. 9 : Digits[d + 1] = c

RECURSIVE ParseNat(_)
ParseNat(s) ==
    IF s = <<>> THEN 0
    ELSE 10 * ParseNat(SubSeq(s, 1, Len(s) - 1)) + DigitValue(s[Len(s)])

IsDigits(s) ==
    /\ s # <<>>
    /\ \A i \in 1 .. Len(s) : \E d \in 1 .. 10 : Digits[d] = s[i]

\* float(v): the number, or an exception (TypeError for None, ValueError
\* for a string that is not a numeral); the strings of the model are plain
\* decimal integers with an optional sign, or no numerals at all
PyFloat(v) ==
    CASE v.kind = "none" -> [ok |-> FALSE, val |-> 0]
      [] v.kind = "num" -> [ok |-> TRUE, val |-> v.n]
      [] v.kind = "str" ->
           IF IsDigits(v.s) THEN [ok |-> TRUE, val |-> ParseNat(v.s)]
           ELSE IF v.s # <<>> /\ v.s[1] = "-" /\ IsDigits(Tail(v.s))
           THEN [ok |-> TRUE, val |-> 0 - ParseNat(Tail(v.s))]
           ELSE [ok |-> FALSE, val |-> 0]

\* the truth value Python gives v in "user_value and ..."
PyTruth(v) ==
    CASE v.kind = "none" -> FALSE
      [] v.kind = "num" -> v.n # 0
      [] v.kind = "str" -> v.s # <<>>

\* One pass of the loop body for a condition: "pass" when the loop goes on,
\* "fail" on return False, "raise" when the body throws.
ConditionOutcome(condition, user_data) ==
    LET operator == condition.operator
        value == condition.value
        user_value == user_data[condition.field]
    IN  CASE operator = "equals" ->
               IF user_value # value THEN "fail" ELSE "pass"
          [] operator = "not_equals" ->
               IF user_value = value THEN "fail" ELSE "pass"
          [] operator = "contains" ->
               IF value.kind # "str" THEN "raise"
               ELSE IF ~IsSubstring(value.s, PyStr(user_value)) THEN "fail"
               ELSE "pass"
          [] operator = "greater_than" ->
               IF ~PyTruth(user_value) THEN "fail"
               ELSE IF ~PyFloat(user_value).ok \/ ~PyFloat(value).ok
               THEN "raise"
               ELSE IF PyFloat(user_value).val > PyFloat(value).val
               THEN "pass" ELSE "fail"
          [] operator = "less_than" ->
               IF ~PyTruth(user_value) THEN "fail"
               ELSE IF ~PyFloat(user_value).ok \/ ~PyFloat(value).ok
               THEN "raise"
               ELSE IF PyFloat(user_value).val < PyFloat(value).val
               THEN "pass" ELSE "fail"
          [] OTHER -> "pass"

RECURSIVE _evaluate_rule_conditions(_, _)
_evaluate_rule_conditions(conditions, user_data) ==
    IF conditions = <<>> THEN TRUE
    ELSE IF ConditionOutcome(Head(conditions), user_data) # "pass" THEN FALSE
    ELSE _evaluate_rule_conditions(Tail(conditions), user_data)

RuleFields == {"turnover", "state"}

RuleOperators ==
    {"equals", "not_equals", "contains", "greater_than", "less_than", "matches"}

RuleValues ==
    {None, Num(0), Num(5), Str(<<"5">>), Str(<<"a", "b">>)}

\* user_data.get(field) is None for a field the caller did not send
RuleUserData ==
    {[turnover |-> t, state |-> s] :
        t \in {None, Num(0), Num(5), Num(10), Num(0 - 1), Str(<<"1", "0">>),
               Str(<<"x">>), Str(<<>>)},
        s \in {None, Str(<<"c", "a", "b">>)}}

InitRules ==
    /\ now = DateTime(2025, 3, 1, 0, 0)
    /\ deadlines = <<>>
    /\ notifications = <<>>
    /\ sweep = [active |-> FALSE, queue |-> <<>>, count |-> 0]
    /\ ev = [op |-> "init"]
    /\ deferred = {}
    /\ delivered = {}
    /\ probe \in {[kind |-> "rule_input", conditions |-> <<>>, user_data |-> u] :
                     u \in RuleUserData}

\* one more condition in the rule under evaluation
AddCondition ==
    /\ probe.kind = "rule_input"
    /\ Len(probe.conditions) < MaxRuleConditions
    /\ \E f \in RuleFields, o \in RuleOperators, v \in RuleValues :
           probe' = [probe EXCEPT !.conditions =
                         Append(@, [field |-> f, operator |-> o, value |-> v])]
    /\ UNCHANGED <<now, deadlines, notifications, sweep, ev, deferred, delivered>>

EvaluateRule ==
    /\ probe.kind = "rule_input"
    /\ probe' = [kind |-> "rule_result", conditions |-> probe.conditions,
                 user_data |-> probe.user_data,
                 result |-> _evaluate_rule_conditions(probe.conditions,
                                                      probe.user_data)]
    /\ UNCHANGED <<now, deadlines, notifications, sweep, ev, deferred, delivered>>

NextRules == AddCondition \/ EvaluateRule

SpecRules == InitRules /\ [][NextRules]_vars

\* The numeric value of a JSON value, where it has one.
NumericValue(v) == PyFloat(v)

\* A condition holds: equality, substring membership, numeric order.
ConditionHolds(condition, user_data) ==
    LET value == condition.value
        user_value == user_data[condition.field]
    IN  CASE condition.operator = "equals" -> user_value = value
          [] condition.operator = "not_equals" -> user_value # value
          [] condition.operator = "contains" ->
               /\ value.kind = "str"
               /\ IsSubstring(value.s, PyStr(user_value))
          [] condition.operator = "greater_than" ->
               /\ NumericValue(user_value).ok
               /\ NumericValue(value).ok
               /\ NumericValue(user_value).val > NumericValue(value).val
          [] condition.operator = "less_than" ->
               /\ NumericValue(user_value).ok
               /\ NumericValue(value).ok
               /\ NumericValue(user_value).val < NumericValue(value).val

NamedOperators ==
    {"equals", "not_equals", "contains", "greater_than", "less_than"}

\* C28: for a rule whose conditions use the five named operators, the
\* evaluation returns true exactly when every condition holds, where
\* greater_than and less_than compare the numeric values of the user's
\* field and of the condition (0 included) and do not hold when either has
\* no numeric value; the evaluation leaves every Deadline and Notification
\* as it was.
C28_EvaluateIsConjunction ==
    [][(probe'.kind = "rule_result"
        /\ \A i \in 1 .. Len(probe'.conditions) :
               probe'.conditions[i].operator \in NamedOperators)
       => /\ probe'.result =
                 (\A i \in 1 .. Len(probe'.conditions) :
                      ConditionHolds(probe'.conditions[i], probe'.user_data))
          /\ deadlines' = deadlines
          /\ notifications' = notifications]_vars

\* the user's turnover is the number 0, the rule asks for less_than 5, and
\* the evaluation answered false
C28_ZeroIsNotCompared ==
    /\ probe.kind = "rule_result"
    /\ probe.user_data.turnover = Num(0)
    /\ probe.conditions =
           <<[field |-> "turnover", operator |-> "less_than", value |-> Num(5)]>>
    /\ ~probe.result

====
